---- MODULE Spec2Model ----
(***************************************************************************)
(* Hybrid (semantic + keyword) search: query classification, candidate     *)
(* retrieval, score fusion, de-duplication and ranking, as implemented by  *)
(* QueryAnalyzer, HybridSearcher, ResultFormatter and SearchService.       *)
(*                                                                         *)
(* Numbers.  Fusion weights are kept in tenths (0.9 -> 9) and retriever    *)
(* scores are integers, so a fused score is an integer number of tenths.   *)
(* Texts.  A text is a sequence of runs [c, n]: the character c repeated   *)
(* n >= 1 times.  A query or a title uses runs of length 1.                *)
(***************************************************************************)
EXTENDS Integers, Sequences, FiniteSets, TLC

VARIABLES
    app,            \* "api": SearchService behind the API; "cli": SearchApplication
    df,             \* the corpus: row label 0..n-1 -> document
    model_loaded,   \* ModelManager.model is not None
    semantic_index, \* SemanticIndex: [embeddings, index], each None or its row count
    keyword_index,  \* KeywordIndex: [vectorizer, tfidf_matrix]
    formatter_df,   \* ResultFormatter.df: the row labels of its view, in order
    req,            \* the last call and its arguments
    analysis,       \* the QueryAnalysis of the last call
    sem_call,       \* the top_k of each call of the semantic retriever's search
    kw_call,        \* the top_k of each call of the keyword retriever's search
    sem_results,    \* candidates returned by _get_semantic_results
    kw_results,     \* candidates returned by _get_keyword_results
    combined,       \* combined_scores, as the list of its items in insertion order
    response,       \* what the call returned or printed, or that it raised
    columns,        \* the columns of the CSV file
    files,          \* the Index Store: file name -> what is on disk
    service         \* SearchService: is_initialized, initialization_error, ...

vars == <<app, df, model_loaded, semantic_index, keyword_index, formatter_df,
          req, analysis, sem_call, kw_call, sem_results, kw_results, combined,
          response, columns, files, service>>

\* an optional value is None or Some(v)
None == <<>>
Some(v) == <<v>>
Value(opt) == opt[1]

\* a retriever's search was not called
NoCall == <<>>

-----------------------------------------------------------------------------
(* Bounds of the model *)

NumDocs == 3
MaxScore == 1
MaxTopK == 3
MaxQueryLen == 7
MaxPairLen == 3

-----------------------------------------------------------------------------
(* Texts *)

Whitespace == {" ", "\n"}
AlnumChars ==
    {"a", "7", "A", "B", "C", "D", "E", "F", "G", "I", "M", "O", "x", "p", "l", "e"}

Min(a, b) == IF a <= b THEN a ELSE b

Run(c, n) == [c |-> c, n |-> n]

\* a plain string, one run per character
Str(chars) == [i \in 1..Len(chars) |-> Run(chars[i], 1)]

\* len(text)
RECURSIVE TextLen(_)
TextLen(text) ==
    IF text = <<>> THEN 0 ELSE Head(text).n + TextLen(Tail(text))

RECURSIVE LStrip(_)
LStrip(text) ==
    IF text # <<>> /\ Head(text).c \in Whitespace THEN LStrip(Tail(text)) ELSE text

RECURSIVE RStrip(_)
RStrip(text) ==
    IF text # <<>> /\ text[Len(text)].c \in Whitespace
    THEN RStrip(SubSeq(text, 1, Len(text) - 1))
    ELSE text

\* str.strip(): leading and trailing whitespace removed
Strip(text) == RStrip(LStrip(text))

\* str.isalnum(): at least one character and every character alphanumeric
IsAlnum(text) ==
    /\ text # <<>>
    /\ \A i \in 1..Len(text) : text[i].c \in AlnumChars

\* str.replace("\n", " ")
ReplaceNewline(text) ==
    [i \in 1..Len(text) |-> IF text[i].c = "\n" THEN Run(" ", text[i].n) ELSE text[i]]

\* text[:k]
RECURSIVE Take(_, _)
Take(text, k) ==
    IF text = <<>> \/ k <= 0 THEN <<>>
    ELSE IF Head(text).n >= k THEN <<Run(Head(text).c, k)>>
    ELSE <<Head(text)>> \o Take(Tail(text), k - Head(text).n)

-----------------------------------------------------------------------------
(* QueryAnalyzer *)

ShortMaxLength == 6
SemanticWeightShort == 9
KeywordWeightShort == 1
SemanticWeightLong == 3
KeywordWeightLong == 7

is_short_query_lt(query) ==
    LET cleaned_query == Strip(query)
    IN  TextLen(cleaned_query) < ShortMaxLength /\ IsAlnum(cleaned_query)

is_short_query_nostrip(query) ==
    TextLen(query) <= ShortMaxLength /\ IsAlnum(query)

is_short_query(query) ==
    LET cleaned_query == Strip(query)
    IN  TextLen(cleaned_query) <= ShortMaxLength /\ IsAlnum(cleaned_query)

get_search_weights_swapped(query) ==
    IF is_short_query(query)
    THEN [semantic_weight |-> SemanticWeightLong,
          keyword_weight  |-> KeywordWeightLong,
          strategy        |-> "keyword-focused"]
    ELSE [semantic_weight |-> SemanticWeightShort,
          keyword_weight  |-> KeywordWeightShort,
          strategy        |-> "semantic-focused"]

get_search_weights(query) ==
    IF is_short_query(query)
    THEN [semantic_weight |-> SemanticWeightShort,
          keyword_weight  |-> KeywordWeightShort,
          strategy        |-> "keyword-focused"]
    ELSE [semantic_weight |-> SemanticWeightLong,
          keyword_weight  |-> KeywordWeightLong,
          strategy        |-> "semantic-focused"]

analyze_query(query) ==
    LET weights  == get_search_weights(query)
        is_short == is_short_query(query)
    IN  [query           |-> Strip(query),
         is_short        |-> is_short,
         length          |-> TextLen(Strip(query)),
         semantic_weight |-> weights.semantic_weight,
         keyword_weight  |-> weights.keyword_weight,
         strategy        |-> weights.strategy]

-----------------------------------------------------------------------------
(* The corpus (DataLoader.load_data: every column read as a string) *)

\* MOD_DATE: a string that pd.to_datetime can parse to the day `day`, or cannot
Date(day) == [ok |-> TRUE, day |-> day]
BadDate == [ok |-> FALSE, day |-> 0]

DocKinds ==
    << [TITLE |-> Str(<<"A">>), MOD_DATE |-> Date(1), SYMBOLS |-> "KABO",
        SOURCE_NAME |-> "wire",
        DESCRIPTION |-> <<Run("x", 300)>>],
       [TITLE |-> Str(<<"A", " ">>), MOD_DATE |-> Date(1), SYMBOLS |-> "KABO",
        SOURCE_NAME |-> "wire",
        DESCRIPTION |-> <<Run("x", 301)>>],
       [TITLE |-> Str(<<"B">>), MOD_DATE |-> BadDate, SYMBOLS |-> "KABO",
        SOURCE_NAME |-> "desk",
        DESCRIPTION |-> <<Run("<", 1), Run("x", 2), Run("\n", 1), Run("x", 2),
                          Run("<", 1), Run("x", 1)>>],
       [TITLE |-> Str(<<"A">>), MOD_DATE |-> Date(2), SYMBOLS |-> "COMI",
        SOURCE_NAME |-> "desk",
        DESCRIPTION |-> <<Run("x", 300), Run(" ", 1)>>] >>

\* the corpus of n rows that starts at kind `first`
Corpus(first, n) ==
    [i \in 0..(n - 1) |-> DocKinds[((first + i) % Len(DocKinds)) + 1]]

Corpora == {Corpus(first, NumDocs) : first \in {0, 1}}

Rows(frame) == DOMAIN frame

-----------------------------------------------------------------------------
(* Sequences of candidates and of (idx, score) items *)

Cand(idx, score, type) == [idx |-> idx, score |-> score, type |-> type]
Item(idx, score) == [idx |-> idx, score |-> score]

\* x placed after every entry of `sorted` whose score is >= x's
RECURSIVE InsertDesc(_, _)
InsertDesc(x, sorted) ==
    IF sorted = <<>> THEN <<x>>
    ELSE IF Head(sorted).score >= x.score
         THEN <<Head(sorted)>> \o InsertDesc(x, Tail(sorted))
         ELSE <<x>> \o sorted

\* sorted(items, key=score, reverse=True): stable, equal scores keep their order
RECURSIVE SortDesc(_)
SortDesc(items) ==
    IF items = <<>> THEN <<>>
    ELSE InsertDesc(items[Len(items)], SortDesc(SubSeq(items, 1, Len(items) - 1)))

\* x placed after every entry of `sorted` whose score is <= x's
RECURSIVE InsertAsc(_, _)
InsertAsc(x, sorted) ==
    IF sorted = <<>> THEN <<x>>
    ELSE IF Head(sorted).score <= x.score
         THEN <<Head(sorted)>> \o InsertAsc(x, Tail(sorted))
         ELSE <<x>> \o sorted

\* ascending stable sort
RECURSIVE SortAsc(_)
SortAsc(items) ==
    IF items = <<>> THEN <<>>
    ELSE InsertAsc(items[Len(items)], SortAsc(SubSeq(items, 1, Len(items) - 1)))

Reverse(seq) == [i \in 1..Len(seq) |-> seq[Len(seq) + 1 - i]]

\* seq[:k], k >= 0
Prefix(seq, k) == SubSeq(seq, 1, Min(k, Len(seq)))

\* the 0-based vector v as the sequence of its (idx, score) items
VectorItems(v) == [i \in 1..Cardinality(DOMAIN v) |-> Item(i - 1, v[i - 1])]

-----------------------------------------------------------------------------
(* SemanticIndex.  The embedding model and the FAISS index are outside the  *)
(* program: a query's inner products with the indexed rows (sims) and       *)
(* whether encode / index.search raises (fails) are inputs of a search.     *)

\* the padding FAISS returns when the index holds fewer than k rows
FaissPad == Item(-1, 0)

\* index.search(query_embedding, top_k): the top_k best rows, best first
FaissSearch(sims, top_k) ==
    LET ranked == SortDesc(VectorItems(sims))
    IN  IF top_k <= Len(ranked) THEN SubSeq(ranked, 1, top_k)
        ELSE ranked \o [i \in 1..(top_k - Len(ranked)) |-> FaissPad]

semantic_is_ready(si, loaded) ==
    si.embeddings # None /\ si.index # None /\ loaded

\* the loop of SemanticIndex.search over zip(indices[0], distances[0])
SemanticCollect(hits) ==
    LET Found(hit) == hit.idx # -1
        kept == SelectSeq(hits, Found)
    IN  [i \in 1..Len(kept) |-> Cand(kept[i].idx, kept[i].score, "semantic")]

semantic_search(si, loaded, top_k, fails, sims) ==
    IF ~semantic_is_ready(si, loaded) THEN <<>>
    ELSE IF fails THEN <<>>
    ELSE SemanticCollect(FaissSearch(sims, top_k))

-----------------------------------------------------------------------------
(* KeywordIndex.  The TF-IDF transform is outside the program: a query's    *)
(* similarities with the matrix rows (sims) and whether transform raises    *)
(* (fails) are inputs of a search.                                          *)

keyword_is_ready(ki) ==
    ki.vectorizer # None /\ ki.tfidf_matrix # None

\* hasattr(vectorizer, 'vocabulary_') and vectorizer.vocabulary_
HasVocabulary(ki) == ki.vectorizer = Some("fitted")

\* a[-k:], k >= 0 (a[-0:] is the whole of a)
LastK(a, k) ==
    IF k = 0 THEN a ELSE SubSeq(a, Len(a) - Min(k, Len(a)) + 1, Len(a))

\* similarities.argsort()[-top_k:][::-1]
TopIndices(sims, top_k) == Reverse(LastK(SortAsc(VectorItems(sims)), top_k))

\* the loop of KeywordIndex.search over top_indices
KeywordCollect(top) ==
    LET Positive(hit) == hit.score > 0
        kept == SelectSeq(top, Positive)
    IN  [i \in 1..Len(kept) |-> Cand(kept[i].idx, kept[i].score, "keyword")]

keyword_search(ki, top_k, fails, sims) ==
    IF ~keyword_is_ready(ki) THEN <<>>
    ELSE IF ~HasVocabulary(ki) THEN <<>>
    ELSE IF fails THEN <<>>
    ELSE KeywordCollect(TopIndices(sims, top_k))

-----------------------------------------------------------------------------
(* HybridSearcher *)

SemanticCountShort == 30
SemanticCountLong == 40
KeywordCountShort == 30
KeywordCountLong == 20

semantic_result_count_topk(query_analysis, top_k) == top_k

semantic_result_count(query_analysis, top_k) ==
    IF query_analysis.is_short THEN SemanticCountShort ELSE SemanticCountLong

keyword_result_count(query_analysis, top_k) ==
    IF query_analysis.is_short THEN KeywordCountShort ELSE KeywordCountLong

\* what the semantic retriever's search is called with, if it is called
SemanticCall(si, loaded, query_analysis, top_k) ==
    IF ~semantic_is_ready(si, loaded) THEN NoCall
    ELSE <<semantic_result_count(query_analysis, top_k)>>

KeywordCall(ki, query_analysis, top_k) ==
    IF ~keyword_is_ready(ki) THEN NoCall
    ELSE <<keyword_result_count(query_analysis, top_k)>>

_get_semantic_results(si, loaded, query_analysis, top_k, fails, sims) ==
    IF ~semantic_is_ready(si, loaded) THEN <<>>
    ELSE semantic_search(si, loaded, semantic_result_count(query_analysis, top_k),
                         fails, sims)

_get_keyword_results(ki, query_analysis, top_k, fails, sims) ==
    IF ~keyword_is_ready(ki) THEN <<>>
    ELSE keyword_search(ki, keyword_result_count(query_analysis, top_k), fails, sims)

\* combined_scores is a dict: the list of its items, in insertion order
HasKey(scores, idx) == \E i \in 1..Len(scores) : scores[i].idx = idx

\* combined_scores.get(idx, 0)
Get(scores, idx) ==
    IF HasKey(scores, idx)
    THEN (CHOOSE it \in {scores[i] : i \in 1..Len(scores)} : it.idx = idx).score
    ELSE 0

\* combined_scores[idx] = value
Put(scores, idx, value) ==
    IF HasKey(scores, idx)
    THEN [i \in 1..Len(scores) |->
            IF scores[i].idx = idx THEN Item(idx, value) ELSE scores[i]]
    ELSE Append(scores, Item(idx, value))

RECURSIVE AccumulateOverwrite(_, _, _)
AccumulateOverwrite(scores, results, weight) ==
    IF results = <<>> THEN scores
    ELSE AccumulateOverwrite(
            Put(scores, Head(results).idx, Head(results).score * weight),
            Tail(results), weight)

RECURSIVE Accumulate(_, _, _)
\* for result in results: combined_scores[idx] = combined_scores.get(idx, 0) + ...
Accumulate(scores, results, weight) ==
    IF results = <<>> THEN scores
    ELSE Accumulate(
            Put(scores, Head(results).idx,
                Get(scores, Head(results).idx) + Head(results).score * weight),
            Tail(results), weight)

_combine_results(semantic_results, keyword_results, query_analysis) ==
    Accumulate(Accumulate(<<>>, semantic_results, query_analysis.semantic_weight),
               keyword_results, query_analysis.keyword_weight)

-----------------------------------------------------------------------------
(* Display fields shared by ResultFormatter and SearchService *)

SummaryLength == 300
Ellipsis == <<Run(".", 3)>>
NA == "N/A"

\* a run of c = "<" stands for markup (one or more tags)
IsTag(run) == run.c = "<"

RECURSIVE GetTextFrom(_, _, _)
\* the text nodes of `text`, joined by one space; `out` is what precedes, and
\* `cut` says that markup ended the last text node
GetTextFrom(text, out, cut) ==
    IF text = <<>> THEN out
    ELSE IF IsTag(Head(text)) THEN GetTextFrom(Tail(text), out, TRUE)
    ELSE IF cut /\ out # <<>>
         THEN GetTextFrom(Tail(text), out \o <<Run(" ", 1), Head(text)>>, FALSE)
         ELSE GetTextFrom(Tail(text), Append(out, Head(text)), FALSE)

\* BeautifulSoup(text, "html.parser").get_text(separator=" ")
GetText(text) == GetTextFrom(text, <<>>, FALSE)

\* description.strip().replace("\n", " ")[:300]
ShortSummary(description) ==
    Take(ReplaceNewline(Strip(description)), SummaryLength)

\* pd.to_datetime(MOD_DATE, errors="coerce"): the day, or NaT
NaT == 0
ToDatetime(mod_date) == IF mod_date.ok THEN mod_date.day ELSE NaT

-----------------------------------------------------------------------------
(* ResultFormatter (the command-line display) *)

\* re.compile(query): a lone "(" is no regular expression
RegexCompiles(query) == \A i \in 1..Len(query) : query[i].c # "("

\* _display_no_results: Series.str.contains(query_lower) compiles the query
DisplayNoResults(query) ==
    IF RegexCompiles(query)
    THEN [status |-> "ok", results |-> <<>>, no_results |-> TRUE]
    ELSE [status |-> "raised", results |-> <<>>, no_results |-> TRUE]

\* the row at position idx of the formatter's frame
ILoc(frame, view, idx) == frame[view[idx + 1]]

_display_single_result(frame, view, idx, score, result_number) ==
    LET row           == ILoc(frame, view, idx)
        description   == GetText(row.DESCRIPTION)
        short_summary == ShortSummary(description)
    IN  [result_number |-> result_number,
         idx           |-> idx,
         title         |-> Strip(row.TITLE),
         date          |-> row.MOD_DATE,
         source        |-> row.SOURCE_NAME,
         summary       |-> short_summary \o Ellipsis,
         score         |-> score]

FormatterLimitReached(displayed, top_k) == displayed >= top_k

FormatterNeverSeen(title, seen_titles) == FALSE

FormatterSeen(title, seen_titles) == title \in seen_titles

RECURSIVE FormatterLoop(_, _, _, _, _, _)
\* the loop of format_and_display_results over sorted_results[i..]
FormatterLoop(frame, view, sorted_results, top_k, seen_titles, printed) ==
    IF sorted_results = <<>> THEN printed
    ELSE IF FormatterLimitReached(Len(printed), top_k) THEN printed
    ELSE LET idx   == Head(sorted_results).idx
             title == Strip(ILoc(frame, view, idx).TITLE)
         IN  IF FormatterSeen(title, seen_titles)
             THEN FormatterLoop(frame, view, Tail(sorted_results), top_k,
                                seen_titles, printed)
             ELSE FormatterLoop(frame, view, Tail(sorted_results), top_k,
                                seen_titles \cup {title},
                                Append(printed,
                                       _display_single_result(
                                           frame, view, idx,
                                           Head(sorted_results).score,
                                           Len(printed) + 1)))

sorted_results_unsorted(combined_scores) == combined_scores

sorted_results_of(combined_scores) == SortDesc(combined_scores)

\* the candidates the loop goes through before one whose position is not in
\* the formatter's frame: self.df.iloc[idx] raises IndexError for that one
BeforeIndexError(view, sorted_results) ==
    LET outside == {i \in 1..Len(sorted_results) :
                       sorted_results[i].idx >= Len(view)}
    IN  IF outside = {} THEN sorted_results
        ELSE SubSeq(sorted_results, 1,
                    (CHOOSE i \in outside : \A j \in outside : i <= j) - 1)

format_and_display_results(frame, view, query, combined_scores, top_k) ==
    IF combined_scores = <<>> THEN DisplayNoResults(query)
    ELSE LET sorted_results == sorted_results_of(combined_scores)
             reached == BeforeIndexError(view, sorted_results)
             printed == FormatterLoop(frame, view, reached, top_k, {}, <<>>)
         IN  IF reached # sorted_results
                /\ ~FormatterLimitReached(Len(printed), top_k)
             THEN [status |-> "raised", error |-> "IndexError",
                   results |-> printed, no_results |-> FALSE]
             ELSE IF Len(printed) = 0 THEN DisplayNoResults(query)
             ELSE [status |-> "ok", results |-> printed, no_results |-> FALSE]

-----------------------------------------------------------------------------
(* SearchService.search *)

\* the row labels of frame, ascending
Labels(frame) == [i \in 1..Cardinality(DOMAIN frame) |-> i - 1]

KeepAnySymbol(frame, symbol, label) == TRUE

\* `if symbol:` -- None stands for no symbol, None or the empty string
KeepSymbol(frame, symbol, label) ==
    symbol = None \/ frame[label].SYMBOLS = Value(symbol)

KeepDate(frame, start_date, end_date, label) ==
    LET day == ToDatetime(frame[label].MOD_DATE)
    IN  /\ (start_date # None \/ end_date # None) => day # NaT
        /\ start_date # None => day >= Value(start_date)
        /\ end_date # None => day <= Value(end_date)

\* df_filtered, as the labels of the rows the filters keep
FilterRows(frame, symbol, start_date, end_date) ==
    LET Keep(label) == /\ KeepSymbol(frame, symbol, label)
                       /\ KeepDate(frame, start_date, end_date, label)
    IN  SelectSeq(Labels(frame), Keep)

Range(seq) == {seq[i] : i \in 1..Len(seq)}

\* date.strftime("%Y-%m-%d"), or "N/A" for NaT
DateStr(mod_date) ==
    IF ToDatetime(mod_date) = NaT THEN NA ELSE ToString(ToDatetime(mod_date))

\* f"{title}|{date_str}": date_str holds no "|", so the pair decides the string
CombinationTitleOnly(title, date_str) == <<title, NA>>

Combination(title, date_str) == <<title, date_str>>

ServiceLimitOff(displayed, top_k) == displayed > top_k

ServiceLimitReached(displayed, top_k) == displayed >= top_k

ServiceNeverSeen(combination, seen_combinations) == FALSE

ServiceSeen(combination, seen_combinations) == combination \in seen_combinations

ResultNumberOfPosition(displayed, position) == position

\* result_number=displayed + 1
ResultNumber(displayed, position) == displayed + 1

\* the summary of a SearchResult
ServiceSummary(description) ==
    LET short_summary == ShortSummary(description)
    IN  IF TextLen(short_summary) = SummaryLength /\ TextLen(description) > SummaryLength
        THEN short_summary \o Ellipsis
        ELSE short_summary

SearchResult(frame, idx, score, result_number) ==
    LET row == frame[idx]
    IN  [result_number |-> result_number,
         idx           |-> idx,
         title         |-> Strip(row.TITLE),
         date          |-> DateStr(row.MOD_DATE),
         source        |-> IF "SOURCE_NAME" \in columns THEN row.SOURCE_NAME ELSE NA,
         summary       |-> ServiceSummary(GetText(row.DESCRIPTION)),
         score         |-> score]

RECURSIVE ServiceLoop(_, _, _, _, _, _, _)
\* the loop of search over sorted_results[position..]
ServiceLoop(frame, valid_indices, sorted_results, position, top_k, seen_combinations, results) ==
    IF position > Len(sorted_results) THEN results
    ELSE LET idx == sorted_results[position].idx
         IN  IF idx \notin valid_indices
             THEN ServiceLoop(frame, valid_indices, sorted_results, position + 1,
                              top_k, seen_combinations, results)
             ELSE IF ServiceLimitReached(Len(results), top_k) THEN results
             ELSE LET combination == Combination(Strip(frame[idx].TITLE),
                                                 DateStr(frame[idx].MOD_DATE))
                  IN  IF ServiceSeen(combination, seen_combinations)
                      THEN ServiceLoop(frame, valid_indices, sorted_results,
                                       position + 1, top_k, seen_combinations,
                                       results)
                      ELSE ServiceLoop(frame, valid_indices, sorted_results,
                                       position + 1, top_k,
                                       seen_combinations \cup {combination},
                                       Append(results,
                                              SearchResult(
                                                  frame, idx,
                                                  sorted_results[position].score,
                                                  ResultNumber(Len(results),
                                                               position))))

\* f"{semantic_weight:.0%} semantic + {keyword_weight:.0%} keyword ({strategy})"
StrategyText(query_analysis) ==
    IF query_analysis.semantic_weight > 0
    THEN <<query_analysis.semantic_weight * 10, "% semantic + ",
           query_analysis.keyword_weight * 10, "% keyword",
           query_analysis.strategy>>
    ELSE <<"Keyword matching only">>

NoResultsFiltered == <<"No results (filtered)">>

-----------------------------------------------------------------------------
(* The service after construction, and the calls made to it *)

\* the queries of a search: short, long, and long with a "(" in it
SearchQueries ==
    { Str(<<"C", "O", "M", "I">>), Str(<<"a", " ", "a">>), Str(<<"a", "(">>) }

TopKs == 1..MaxTopK
Symbols == {None, Some("KABO")}
StartDates == {None, Some(2)}
EndDates == {None, Some(1)}

\* the fields of SemanticIndex after SearchService._initialize: nothing loaded
\* or built, the embeddings without the index, or both; a restored index may
\* hold fewer rows than the corpus it is used with
SemanticStates ==
    {[embeddings |-> None, index |-> None]}
    \cup {[embeddings |-> Some(n), index |-> None] : n \in {NumDocs}}
    \cup {[embeddings |-> Some(n), index |-> Some(n)] : n \in {NumDocs - 1, NumDocs}}

\* the fields of KeywordIndex after SearchService._initialize
KeywordStates ==
    { [vectorizer |-> None, tfidf_matrix |-> None],
      [vectorizer |-> Some("unfitted"), tfidf_matrix |-> Some(NumDocs)],
      [vectorizer |-> Some("fitted"), tfidf_matrix |-> Some(NumDocs)] }

ScoreVectors(n) == [0..(n - 1) -> 0..MaxScore]

\* what the embedding model and FAISS do in one semantic search
SemanticInputs(si, loaded) ==
    IF ~semantic_is_ready(si, loaded) THEN {[fails |-> FALSE, sims |-> <<>>]}
    ELSE {[fails |-> TRUE, sims |-> <<>>]}
         \cup {[fails |-> FALSE, sims |-> v] : v \in ScoreVectors(Value(si.index))}

\* what the TF-IDF transform does in one keyword search
KeywordInputs(ki) ==
    IF ~keyword_is_ready(ki) \/ ~HasVocabulary(ki)
    THEN {[fails |-> FALSE, sims |-> <<>>]}
    ELSE {[fails |-> TRUE, sims |-> <<>>]}
         \cup {[fails |-> FALSE, sims |-> v] : v \in ScoreVectors(Value(ki.tfidf_matrix))}

\* the columns of the data file the service is written for
AllColumns == {"TITLE", "DESCRIPTION", "MOD_DATE", "SOURCE_NAME", "SYMBOLS"}

\* the files of the Index Store
SemanticFiles == <<"embeddings.npy", "faiss.index">>
KeywordFiles == <<"tfidf_matrix.npz", "tfidf_vocab.npy">>
FileNames == Range(SemanticFiles) \cup Range(KeywordFiles)

\* what is on disk under a name: nothing, a whole artifact of `rows` rows, or
\* the beginning of one
Absent == [state |-> "absent"]
Torn == [state |-> "torn"]
Saved(rows) == [state |-> "ok", rows |-> rows]

EmptyStore == [name \in FileNames |-> Absent]

\* the fields of SearchService after a successful _initialize
Initialized ==
    [is_initialized |-> TRUE, initialization_error |-> None,
     hybrid_searcher |-> TRUE, df |-> TRUE]

NoRequest == [op |-> "none"]
NoResponse == [status |-> "none"]

Init ==
    /\ app \in {"api", "cli"}
    /\ df \in Corpora
    /\ model_loaded \in BOOLEAN
    /\ semantic_index \in SemanticStates
    /\ model_loaded = FALSE => semantic_index = [embeddings |-> None, index |-> None]
    /\ keyword_index \in KeywordStates
    /\ formatter_df = Labels(df)
    /\ req = NoRequest
    /\ analysis = None
    /\ sem_call = NoCall
    /\ kw_call = NoCall
    /\ sem_results = <<>>
    /\ kw_results = <<>>
    /\ combined = <<>>
    /\ response = NoResponse
    /\ columns = AllColumns
    /\ files = EmptyStore
    /\ service = Initialized

\* what one call leaves behind: the request, the formatter's view, the locals
\* of the call and its response
Outcome(request, view, query_analysis, s_call, k_call, semantic_results, keyword_results, combined_scores, resp) ==
    [req |-> request, formatter_df |-> view, analysis |-> query_analysis,
     sem_call |-> s_call, kw_call |-> k_call, sem_results |-> semantic_results,
     kw_results |-> keyword_results, combined |-> combined_scores,
     response |-> resp]

\* the call raised, or returned, before it analysed the query
EarlyOutcome(request, resp) ==
    Outcome(request, formatter_df, None, NoCall, NoCall, <<>>, <<>>, <<>>, resp)

RaisedError(error) == [status |-> "raised", error |-> error, results |-> <<>>]

\* the logging of lines 116-117 reads both columns of the frame
LoggedColumns == {"MOD_DATE", "SYMBOLS"}

\* the search returns or raises before the retrievers are asked
ReturnsEarly(symbol, start_date, end_date) ==
    \/ ~service.is_initialized
    \/ ~(LoggedColumns \subseteq columns)
    \/ FilterRows(df, symbol, start_date, end_date) = <<>>

NoInput == [fails |-> FALSE, sims |-> <<>>]

\* SearchService.search(query, top_k, start_date, end_date, symbol); sem_in and
\* kw_in are what the retrievers' libraries do during the call
service_search(query, top_k, start_date, end_date, symbol, sem_in, kw_in) ==
    LET df_filtered == FilterRows(df, symbol, start_date, end_date)
        request == [op |-> "search", query |-> query, top_k |-> top_k,
                    symbol |-> symbol, start_date |-> start_date,
                    end_date |-> end_date]
    IN  IF ~service.is_initialized
        THEN EarlyOutcome(request, RaisedError("not initialized"))
        ELSE IF ~(LoggedColumns \subseteq columns)
        THEN EarlyOutcome(request, RaisedError("KeyError"))
        ELSE IF df_filtered = <<>>
        THEN EarlyOutcome(request, [status |-> "ok", results |-> <<>>,
                                    strategy |-> NoResultsFiltered])
        ELSE LET query_analysis == analyze_query(query)
                 semantic_results ==
                     _get_semantic_results(semantic_index, model_loaded,
                                           query_analysis, top_k,
                                           sem_in.fails, sem_in.sims)
                 keyword_results ==
                     _get_keyword_results(keyword_index, query_analysis, top_k,
                                          kw_in.fails, kw_in.sims)
                 combined_scores ==
                     _combine_results(semantic_results, keyword_results,
                                      query_analysis)
                 results ==
                     ServiceLoop(df, Range(df_filtered),
                                 sorted_results_of(combined_scores), 1, top_k,
                                 {}, <<>>)
             IN  Outcome(request @@ [sem_fails |-> sem_in.fails,
                                     kw_fails |-> kw_in.fails],
                         df_filtered, query_analysis,
                         SemanticCall(semantic_index, model_loaded,
                                      query_analysis, top_k),
                         KeywordCall(keyword_index, query_analysis, top_k),
                         semantic_results, keyword_results, combined_scores,
                         [status |-> "ok", results |-> results,
                          strategy |-> StrategyText(query_analysis)])

\* HybridSearcher.search(query, top_k)
hybrid_search(query, top_k, sem_in, kw_in) ==
    LET query_analysis == analyze_query(query)
        semantic_results ==
            _get_semantic_results(semantic_index, model_loaded, query_analysis,
                                  top_k, sem_in.fails, sem_in.sims)
        keyword_results ==
            _get_keyword_results(keyword_index, query_analysis, top_k,
                                 kw_in.fails, kw_in.sims)
        combined_scores ==
            _combine_results(semantic_results, keyword_results, query_analysis)
    IN  Outcome([op |-> "cli_search", query |-> query, top_k |-> top_k,
                 symbol |-> None, start_date |-> None, end_date |-> None,
                 sem_fails |-> sem_in.fails, kw_fails |-> kw_in.fails],
                formatter_df, query_analysis,
                SemanticCall(semantic_index, model_loaded, query_analysis, top_k),
                KeywordCall(keyword_index, query_analysis, top_k),
                semantic_results, keyword_results, combined_scores,
                format_and_display_results(df, formatter_df, query,
                                           combined_scores, top_k))

\* the state after a call with outcome out
Becomes(out) ==
    /\ req' = out.req
    /\ formatter_df' = out.formatter_df
    /\ analysis' = out.analysis
    /\ sem_call' = out.sem_call
    /\ kw_call' = out.kw_call
    /\ sem_results' = out.sem_results
    /\ kw_results' = out.kw_results
    /\ combined' = out.combined
    /\ response' = out.response
    /\ UNCHANGED <<app, df, model_loaded, semantic_index, keyword_index,
                   columns, files, service>>

\* SearchService.search(query, top_k, start_date, end_date, symbol)
Search ==
    /\ app = "api"
    /\ req = NoRequest
    /\ \E query \in SearchQueries, top_k \in TopKs, symbol \in Symbols,
          start_date \in StartDates, end_date \in EndDates :
        IF ReturnsEarly(symbol, start_date, end_date)
        THEN Becomes(service_search(query, top_k, start_date, end_date, symbol,
                                    NoInput, NoInput))
        ELSE \E sem_in \in SemanticInputs(semantic_index, model_loaded),
                kw_in \in KeywordInputs(keyword_index) :
                Becomes(service_search(query, top_k, start_date, end_date,
                                       symbol, sem_in, kw_in))

\* HybridSearcher.search(query, top_k), called by SearchApplication.search
CliSearch ==
    /\ app = "cli"
    /\ req = NoRequest
    /\ \E query \in SearchQueries, top_k \in TopKs,
          sem_in \in SemanticInputs(semantic_index, model_loaded),
          kw_in \in KeywordInputs(keyword_index) :
        Becomes(hybrid_search(query, top_k, sem_in, kw_in))

\* the call has returned to its caller: its arguments and locals are gone
Return ==
    /\ req # NoRequest
    /\ req' = NoRequest
    /\ analysis' = None
    /\ sem_call' = NoCall
    /\ kw_call' = NoCall
    /\ sem_results' = <<>>
    /\ kw_results' = <<>>
    /\ combined' = <<>>
    /\ response' = NoResponse
    /\ UNCHANGED <<app, df, model_loaded, semantic_index, keyword_index,
                   formatter_df, columns, files, service>>

Next == Search \/ CliSearch \/ Return

Spec == Init /\ [][Next]_vars

-----------------------------------------------------------------------------
(* QueryAnalyzer.analyze_query on its own *)

QueryChars == {"a", "7", " ", "("}

NamedQueries ==
    { Str(<<"C", "O", "M", "I">>),
      Str(<<"A", "B", "C", "D", "E", "F">>),
      Str(<<"A", "B", "C", "D", "E", "F", "G">>) }

ClassifierQueries ==
    {Str(chars) : chars \in UNION {[1..n -> QueryChars] : n \in 0..MaxQueryLen}}
    \cup NamedQueries

InitClassifier ==
    /\ app = "cli"
    /\ df = Corpus(0, NumDocs)
    /\ model_loaded = FALSE
    /\ semantic_index = [embeddings |-> None, index |-> None]
    /\ keyword_index = [vectorizer |-> None, tfidf_matrix |-> None]
    /\ formatter_df = Labels(df)
    /\ req \in {[op |-> "analyze", query |-> query] : query \in ClassifierQueries}
    /\ analysis = None
    /\ sem_call = NoCall
    /\ kw_call = NoCall
    /\ sem_results = <<>>
    /\ kw_results = <<>>
    /\ combined = <<>>
    /\ response = NoResponse
    /\ columns = AllColumns
    /\ files = EmptyStore
    /\ service = Initialized

\* QueryAnalyzer.analyze_query(query)
AnalyzeQuery ==
    /\ req.op = "analyze"
    /\ analysis = None
    /\ analysis' = analyze_query(req.query)
    /\ UNCHANGED <<app, df, model_loaded, semantic_index, keyword_index,
                   formatter_df, req, sem_call, kw_call, sem_results, kw_results,
                   combined, response, columns, files, service>>

SpecClassifier == InitClassifier /\ [][AnalyzeQuery]_vars

-----------------------------------------------------------------------------
(* FileManager: the Index Store *)

file_exists(fs, name) == fs[name].state # "absent"

\* np.load, sparse.load_npz and faiss.read_index return only for a whole file
Loads(fs, name) == fs[name].state = "ok"

\* np.save, sparse.save_npz and faiss.write_index open the named file itself
\* and write into it: a save that fails leaves the file as it was (it could not
\* be opened) or leaves the beginning of the new content under the name
SaveOutcomes == {"saved", "unwritten", "torn"}

Save(fs, name, rows, outcome) ==
    CASE outcome = "saved" -> [fs EXCEPT ![name] = Saved(rows)]
      [] outcome = "torn"  -> [fs EXCEPT ![name] = Torn]
      [] OTHER             -> fs

\* the step of a build at which a library call raises, and what a failed save
\* leaves on disk
Fault(step, left) == [step |-> step, left |-> left]
NoFault == Fault("none", "unwritten")

\* what load_or_create_index leaves behind and returns
Loaded(fields, fs, returned, calls) ==
    [fields |-> fields, files |-> fs, returned |-> returned, calls |-> calls]

-----------------------------------------------------------------------------
(* SemanticIndex: load_or_create_index *)

FreshSemantic == [embeddings |-> None, index |-> None]

semantic_load_existing_index(si, fs) ==
    IF file_exists(fs, SemanticFiles[1]) /\ file_exists(fs, SemanticFiles[2])
    THEN IF ~Loads(fs, SemanticFiles[1])
         THEN [fields |-> si, returned |-> FALSE]
         ELSE LET loaded1 == [si EXCEPT !.embeddings = Some(fs[SemanticFiles[1]].rows)]
              IN  IF ~Loads(fs, SemanticFiles[2])
                  THEN [fields |-> loaded1, returned |-> FALSE]
                  ELSE [fields |-> [loaded1 EXCEPT
                                      !.index = Some(fs[SemanticFiles[2]].rows)],
                        returned |-> TRUE]
    ELSE [fields |-> si, returned |-> FALSE]

SemanticFaults ==
    {NoFault, Fault("encode", "unwritten"), Fault("add", "unwritten")}
    \cup {Fault(step, left) : step \in {"save_embeddings", "save_index"},
                              left \in SaveOutcomes \ {"saved"}}

semantic_create_new_index(si, fs, rows, fault) ==
    IF fault.step = "encode" THEN Loaded(si, fs, FALSE, <<"encode">>)
    ELSE LET encoded == [si EXCEPT !.embeddings = Some(rows)]
         IN  IF fault.step = "add"
             THEN Loaded([encoded EXCEPT !.index = Some(0)], fs, FALSE,
                         <<"encode", "IndexFlatIP", "add">>)
             ELSE LET built == [encoded EXCEPT !.index = Some(rows)]
                      calls == <<"encode", "IndexFlatIP", "add",
                                 "save_numpy_array">>
                  IN  IF fault.step = "save_embeddings"
                      THEN Loaded(built,
                                  Save(fs, SemanticFiles[1], rows, fault.left),
                                  FALSE, calls)
                      ELSE LET saved1 == Save(fs, SemanticFiles[1], rows, "saved")
                           IN  IF fault.step = "save_index"
                               THEN Loaded(built,
                                           Save(saved1, SemanticFiles[2], rows,
                                                fault.left),
                                           FALSE,
                                           Append(calls, "save_faiss_index"))
                               ELSE Loaded(built,
                                           Save(saved1, SemanticFiles[2], rows,
                                                "saved"),
                                           TRUE,
                                           Append(calls, "save_faiss_index"))

semantic_load_or_create_index(si, loaded, fs, rows, fault) ==
    LET restored == semantic_load_existing_index(si, fs)
    IN  IF restored.returned THEN Loaded(restored.fields, fs, TRUE, <<>>)
        ELSE IF ~loaded THEN Loaded(restored.fields, fs, FALSE, <<>>)
        ELSE semantic_create_new_index(restored.fields, fs, rows, fault)

-----------------------------------------------------------------------------
(* KeywordIndex: load_or_create_index *)

FreshKeyword == [vectorizer |-> None, tfidf_matrix |-> None]

\* line 48 calls self.vectorizer._get_hasher(): TfidfVectorizer has no such
\* method (HashingVectorizer has), so the call raises AttributeError
HasGetHasher == FALSE

keyword_load_existing_index(ki, fs) ==
    IF file_exists(fs, KeywordFiles[1]) /\ file_exists(fs, KeywordFiles[2])
    THEN IF ~Loads(fs, KeywordFiles[1])
         THEN [fields |-> ki, returned |-> FALSE]
         ELSE LET loaded1 == [ki EXCEPT
                                !.tfidf_matrix = Some(fs[KeywordFiles[1]].rows)]
              IN  IF ~Loads(fs, KeywordFiles[2])
                  THEN [fields |-> loaded1, returned |-> FALSE]
                  ELSE [fields |-> [loaded1 EXCEPT !.vectorizer = Some("restored")],
                        returned |-> HasGetHasher]
    ELSE [fields |-> ki, returned |-> FALSE]

KeywordFaults ==
    {NoFault, Fault("fit_transform", "unwritten")}
    \cup {Fault(step, left) : step \in {"save_matrix", "save_vocabulary"},
                              left \in SaveOutcomes \ {"saved"}}

keyword_create_new_index(ki, fs, rows, fault) ==
    LET created == [ki EXCEPT !.vectorizer = Some("unfitted")]
    IN  IF fault.step = "fit_transform"
        THEN Loaded(created, fs, FALSE, <<"fit_transform">>)
        ELSE LET built == [vectorizer |-> Some("fitted"),
                           tfidf_matrix |-> Some(rows)]
                 calls == <<"fit_transform", "save_sparse_matrix">>
             IN  IF fault.step = "save_matrix"
                 THEN Loaded(built, Save(fs, KeywordFiles[1], rows, fault.left),
                             FALSE, calls)
                 ELSE LET saved1 == Save(fs, KeywordFiles[1], rows, "saved")
                      IN  IF fault.step = "save_vocabulary"
                          THEN Loaded(built,
                                      Save(saved1, KeywordFiles[2], rows,
                                           fault.left),
                                      FALSE, Append(calls, "save_dictionary"))
                          ELSE Loaded(built,
                                      Save(saved1, KeywordFiles[2], rows, "saved"),
                                      TRUE, Append(calls, "save_dictionary"))

keyword_load_or_create_index(ki, fs, rows, fault) ==
    LET restored == keyword_load_existing_index(ki, fs)
    IN  IF restored.returned THEN Loaded(restored.fields, fs, TRUE, <<>>)
        ELSE keyword_create_new_index(restored.fields, fs, rows, fault)

-----------------------------------------------------------------------------
(* The retrievers on their own: one process after another builds or restores *)
(* the two indices over the same Index Store, and searches                    *)

\* the fields of SearchService before _initialize
Unconstructed ==
    [is_initialized |-> FALSE, initialization_error |-> None,
     hybrid_searcher |-> FALSE, df |-> FALSE]

\* the store a first process finds: no artifact, or the two artifacts of an
\* earlier build, of this corpus or of one with a row less
PairStores(names) ==
    {[i \in 1..2 |-> Absent]}
    \cup {[i \in 1..2 |-> Saved(rows)] : rows \in {NumDocs - 1, NumDocs}}

InitialStores ==
    {[name \in FileNames |->
        IF name = SemanticFiles[1] THEN sem[1]
        ELSE IF name = SemanticFiles[2] THEN sem[2]
        ELSE IF name = KeywordFiles[1] THEN kw[1]
        ELSE kw[2]] : sem \in PairStores(SemanticFiles),
                      kw \in PairStores(KeywordFiles)}

InitIndex ==
    /\ app = "cli"
    /\ df = Corpus(0, NumDocs)
    /\ model_loaded \in BOOLEAN
    /\ semantic_index = FreshSemantic
    /\ keyword_index = FreshKeyword
    /\ formatter_df = Labels(df)
    /\ req = NoRequest
    /\ analysis = None
    /\ sem_call = NoCall
    /\ kw_call = NoCall
    /\ sem_results = <<>>
    /\ kw_results = <<>>
    /\ combined = <<>>
    /\ response = NoResponse
    /\ columns = AllColumns
    /\ files \in InitialStores
    /\ service = Unconstructed

\* SemanticIndex.load_or_create_index(texts), on a new SemanticIndex
SemanticLoadOrCreate ==
    /\ req = NoRequest
    /\ semantic_index = FreshSemantic
    /\ \E fault \in SemanticFaults :
        LET out == semantic_load_or_create_index(semantic_index, model_loaded,
                                                 files, NumDocs, fault)
        IN  /\ semantic_index' = out.fields
            /\ files' = out.files
            /\ req' = [op |-> "semantic_load_or_create_index", files |-> files,
                       fields |-> semantic_index, fault |-> fault]
            /\ response' = [status |-> "ok", returned |-> out.returned,
                            calls |-> out.calls]
    /\ UNCHANGED <<app, df, model_loaded, keyword_index, formatter_df, analysis,
                   sem_call, kw_call, sem_results, kw_results, combined,
                   columns, service>>

\* KeywordIndex.load_or_create_index(texts), on a new KeywordIndex
KeywordLoadOrCreate ==
    /\ req = NoRequest
    /\ keyword_index = FreshKeyword
    /\ \E fault \in KeywordFaults :
        LET out == keyword_load_or_create_index(keyword_index, files, NumDocs,
                                                fault)
        IN  /\ keyword_index' = out.fields
            /\ files' = out.files
            /\ req' = [op |-> "keyword_load_or_create_index", files |-> files,
                       fields |-> keyword_index, fault |-> fault]
            /\ response' = [status |-> "ok", returned |-> out.returned,
                            calls |-> out.calls]
    /\ UNCHANGED <<app, df, model_loaded, semantic_index, formatter_df, analysis,
                   sem_call, kw_call, sem_results, kw_results, combined,
                   columns, service>>

\* the top_k of a direct call of a retriever's search
DirectTopKs == 0..MaxTopK

\* KeywordIndex.search(query, top_k)
KeywordSearch ==
    /\ req = NoRequest
    /\ \E top_k \in DirectTopKs, kw_in \in KeywordInputs(keyword_index) :
        /\ req' = [op |-> "keyword_search", top_k |-> top_k,
                   fails |-> kw_in.fails, sims |-> kw_in.sims]
        /\ response' = [status |-> "ok",
                        results |-> keyword_search(keyword_index, top_k,
                                                   kw_in.fails, kw_in.sims)]
    /\ UNCHANGED <<app, df, model_loaded, semantic_index, keyword_index,
                   formatter_df, analysis, sem_call, kw_call, sem_results,
                   kw_results, combined, columns, files, service>>

\* the process ends and the next one starts: new retriever objects, the model
\* loads or does not, the Index Store is what the last process left
Restart ==
    /\ req = NoRequest
    /\ semantic_index # FreshSemantic \/ keyword_index # FreshKeyword
    /\ semantic_index' = FreshSemantic
    /\ keyword_index' = FreshKeyword
    /\ model_loaded' \in BOOLEAN
    /\ UNCHANGED <<app, df, formatter_df, req, analysis, sem_call, kw_call,
                   sem_results, kw_results, combined, response, columns, files,
                   service>>

NextIndex ==
    SemanticLoadOrCreate \/ KeywordLoadOrCreate \/ KeywordSearch \/ Restart
    \/ Return

SpecIndex == InitIndex /\ [][NextIndex]_vars

-----------------------------------------------------------------------------
(* SearchService from its construction, behind the API *)

RequiredColumns == {"TITLE", "DESCRIPTION"}

\* DataLoader.validate_columns(["TITLE", "DESCRIPTION"]) returns (TRUE) or raises
validate_columns_any(cols) == TRUE

validate_columns(cols) == RequiredColumns \subseteq cols

\* the fields _initialize leaves when it raised before line 71
FailedInitialize(error, df_set) ==
    [is_initialized |-> FALSE, initialization_error |-> Some(error),
     hybrid_searcher |-> FALSE, df |-> df_set]

\* SearchService._initialize: the fields of the service, the model and the
\* retrievers, and the Index Store it leaves
_initialize(csv_readable, cols, model_loads, fs, rows, sem_fault, kw_fault) ==
    IF ~csv_readable
    THEN [service |-> FailedInitialize("Failed to load CSV", FALSE),
          model_loaded |-> FALSE, semantic_index |-> FreshSemantic,
          keyword_index |-> FreshKeyword, files |-> fs]
    ELSE IF ~validate_columns(cols)
    THEN [service |-> FailedInitialize("Missing columns", TRUE),
          model_loaded |-> FALSE, semantic_index |-> FreshSemantic,
          keyword_index |-> FreshKeyword, files |-> fs]
    ELSE LET sem == IF model_loads
                    THEN semantic_load_or_create_index(FreshSemantic, TRUE, fs,
                                                       rows, sem_fault)
                    ELSE Loaded(FreshSemantic, fs, FALSE, <<>>)
             kw  == keyword_load_or_create_index(FreshKeyword, sem.files, rows,
                                                 kw_fault)
         IN  [service |-> Initialized, model_loaded |-> model_loads,
              semantic_index |-> sem.fields, keyword_index |-> kw.fields,
              files |-> kw.files]

get_search_capabilities_by_semantic(si, loaded, ki) ==
    LET semantic_available == semantic_is_ready(si, loaded)
        keyword_available  == keyword_is_ready(ki)
    IN  [semantic_available |-> semantic_available,
         keyword_available  |-> keyword_available,
         hybrid_mode        |-> semantic_available /\ keyword_available,
         mode |-> IF semantic_available /\ keyword_available THEN "hybrid"
                  ELSE IF semantic_available THEN "keyword_only"
                  ELSE "none"]

\* HybridSearcher.get_search_capabilities
get_search_capabilities(si, loaded, ki) ==
    LET semantic_available == semantic_is_ready(si, loaded)
        keyword_available  == keyword_is_ready(ki)
        hybrid_mode        == semantic_available /\ keyword_available
    IN  [semantic_available |-> semantic_available,
         keyword_available  |-> keyword_available,
         hybrid_mode        |-> hybrid_mode,
         mode |-> IF hybrid_mode THEN "hybrid"
                  ELSE IF keyword_available THEN "keyword_only"
                  ELSE "none"]

get_health_status_healthy(svc, rows) ==
    [status |-> "healthy", documents_loaded |-> rows,
     search_capabilities |->
         Some(get_search_capabilities(semantic_index, model_loaded,
                                      keyword_index))]

\* SearchService.get_health_status; the retrievers are those of
\* self.hybrid_searcher, and search_capabilities is None for the empty dict
get_health_status(svc, rows) ==
    IF svc.is_initialized /\ svc.hybrid_searcher
    THEN [status |-> "healthy", documents_loaded |-> IF svc.df THEN rows ELSE 0,
          search_capabilities |->
              Some(get_search_capabilities(semantic_index, model_loaded,
                                           keyword_index))]
    ELSE [status |-> "unhealthy", documents_loaded |-> 0,
          search_capabilities |-> None]

\* the CSV files considered: the five columns, or one of them missing
ColumnSets == {AllColumns} \cup {AllColumns \ {c} : c \in AllColumns}

\* the faults of a build considered at startup
StartupSemanticFaults == {NoFault, Fault("encode", "unwritten")}
StartupKeywordFaults == {NoFault, Fault("fit_transform", "unwritten")}

InitService ==
    /\ app = "api"
    /\ df = Corpus(0, NumDocs)
    /\ model_loaded = FALSE
    /\ semantic_index = FreshSemantic
    /\ keyword_index = FreshKeyword
    /\ formatter_df = Labels(df)
    /\ req = NoRequest
    /\ analysis = None
    /\ sem_call = NoCall
    /\ kw_call = NoCall
    /\ sem_results = <<>>
    /\ kw_results = <<>>
    /\ combined = <<>>
    /\ response = NoResponse
    /\ columns \in ColumnSets
    /\ files = EmptyStore
    /\ service = Unconstructed

\* SearchService(csv_path): __init__ and _initialize
Initialize ==
    /\ service = Unconstructed
    /\ req = NoRequest
    /\ \E csv_readable \in BOOLEAN, model_loads \in BOOLEAN,
          sem_fault \in StartupSemanticFaults, kw_fault \in StartupKeywordFaults :
        LET out == _initialize(csv_readable, columns, model_loads, files,
                               Cardinality(DOMAIN df), sem_fault, kw_fault)
        IN  /\ service' = out.service
            /\ model_loaded' = out.model_loaded
            /\ semantic_index' = out.semantic_index
            /\ keyword_index' = out.keyword_index
            /\ files' = out.files
            /\ req' = [op |-> "initialize", csv_readable |-> csv_readable]
            /\ response' = [status |-> "ok"]
    /\ UNCHANGED <<app, df, formatter_df, analysis, sem_call, kw_call,
                   sem_results, kw_results, combined, columns>>

\* APIRoutes.health_check
HealthCheck ==
    /\ service # Unconstructed
    /\ req = NoRequest
    /\ req' = [op |-> "health_check"]
    /\ response' = get_health_status(service, Cardinality(DOMAIN df))
    /\ UNCHANGED <<app, df, model_loaded, semantic_index, keyword_index,
                   formatter_df, analysis, sem_call, kw_call, sem_results,
                   kw_results, combined, columns, files, service>>

\* the requests to a search route: one query, the largest top_k, a date text
\* that is a date or is not, a symbol of the corpus or one it does not have
ApiQueries == {Str(<<"C", "O", "M", "I">>)}
ApiTopKs == {MaxTopK}
ApiStartTexts == {None, Some(Date(2)), Some(BadDate)}
ApiEndTexts == {None, Some(BadDate)}
ApiSymbols == {None, Some("KABO"), Some("ZZZZ")}

\* datetime.strptime(text, "%Y-%m-%d"), or the parse of a datetime field of
\* the request body: the date, where the text is one
Parses(text) == text = None \/ Value(text).ok
ParsedDate(text) == IF text = None THEN None ELSE Some(Value(text).day)

\* the response of a route: the status code and, with 200, the body
HttpError(code) == [status |-> "http", code |-> code, results |-> <<>>]
HttpOk(body) ==
    [status |-> "http", code |-> 200, results |-> body.results,
     strategy |-> body.strategy, total_results |-> Len(body.results)]

\* the try/except of a route around SearchService.search
Routed(out, request) ==
    [out EXCEPT !.req = request @@ out.req,
                !.response = IF out.response.status = "raised"
                             THEN HttpError(500)
                             ELSE HttpOk(out.response)]

\* one search route called with the request
Route(op, query, top_k, start_text, end_text, symbol, parse_error_code) ==
    LET request == [op |-> op, start_text |-> start_text, end_text |-> end_text,
                    query |-> query, top_k |-> top_k, symbol |-> symbol]
        start_date == ParsedDate(start_text)
        end_date == ParsedDate(end_text)
    IN  IF ~Parses(start_text) \/ ~Parses(end_text)
        THEN Becomes(EarlyOutcome(request, HttpError(parse_error_code)))
        ELSE IF ReturnsEarly(symbol, start_date, end_date)
        THEN Becomes(Routed(service_search(query, top_k, start_date, end_date,
                                           symbol, NoInput, NoInput), request))
        ELSE \E sem_in \in SemanticInputs(semantic_index, model_loaded),
                kw_in \in KeywordInputs(keyword_index) :
                Becomes(Routed(service_search(query, top_k, start_date, end_date,
                                              symbol, sem_in, kw_in), request))

\* APIRoutes.search: strptime inside the try, every exception becomes HTTP 500
RoutesSearch ==
    /\ service # Unconstructed
    /\ req = NoRequest
    /\ \E query \in ApiQueries, top_k \in ApiTopKs, start_text \in ApiStartTexts,
          end_text \in ApiEndTexts, symbol \in ApiSymbols :
        Route("routes_search", query, top_k, start_text, end_text, symbol, 500)

\* APIServer search_endpoint (POST /search): the body is a SearchRequest whose
\* date_from and date_to are datetimes, so a text that is no date is refused
\* with 422 before the handler runs
SearchEndpoint ==
    /\ service # Unconstructed
    /\ req = NoRequest
    /\ \E query \in ApiQueries, top_k \in ApiTopKs, start_text \in ApiStartTexts,
          end_text \in ApiEndTexts, symbol \in ApiSymbols :
        Route("search_endpoint", query, top_k, start_text, end_text, symbol, 422)

NextService ==
    Initialize \/ HealthCheck \/ RoutesSearch \/ SearchEndpoint \/ Return

SpecService == InitService /\ [][NextService]_vars

-----------------------------------------------------------------------------
(* The duplicate-title scenario: three documents, the query "Apple", top_k 2 *)

AppleTitle ==
    Str(<<"A", "p", "p", "l", "e", " ", "R", "e", "p", "o",
          "r", "t", "s", " ", "E", "a", "r", "n", "i", "n",
          "g", "s">>)

BananaTitle ==
    Str(<<"B", "a", "n", "a", "n", "a", " ", "M", "a", "r",
          "k", "e", "t", " ", "U", "p", "d", "a", "t", "e">>)

AppleQuery ==
    Str(<<"A", "p", "p", "l", "e">>)

\* two documents with the same title and dates of different days, and a third
AppleCorpus ==
    [i \in 0..2 |->
        [TITLE |-> IF i = 2 THEN BananaTitle ELSE AppleTitle,
         MOD_DATE |-> Date(IF i = 1 THEN 2 ELSE 1),
         SYMBOLS |-> "KABO",
         SOURCE_NAME |-> "wire",
         DESCRIPTION |-> <<Run("x", 2 + i)>>]]

\* the indices of the scenario are not built or built from its corpus
ScenarioSemanticStates ==
    {FreshSemantic, [embeddings |-> Some(3), index |-> Some(3)]}

ScenarioKeywordStates ==
    {FreshKeyword, [vectorizer |-> Some("fitted"), tfidf_matrix |-> Some(3)]}

\* the TF-IDF similarity of "Apple" is positive for the documents whose text
\* has the term (TextProcessor puts the title into the text) and 0 for the
\* third, whose title does not have it
ScenarioKeywordInputs(ki) ==
    IF ~keyword_is_ready(ki) THEN {NoInput}
    ELSE {[fails |-> TRUE, sims |-> <<>>]}
         \cup {[fails |-> FALSE, sims |-> (0 :> a) @@ (1 :> b) @@ (2 :> 0)] :
                  a \in 1..(MaxScore + 1), b \in 1..(MaxScore + 1)}

InitScenario ==
    /\ app \in {"api", "cli"}
    /\ df = AppleCorpus
    /\ model_loaded \in BOOLEAN
    /\ semantic_index \in ScenarioSemanticStates
    /\ model_loaded = FALSE => semantic_index = FreshSemantic
    /\ keyword_index \in ScenarioKeywordStates
    /\ formatter_df = Labels(df)
    /\ req = NoRequest
    /\ analysis = None
    /\ sem_call = NoCall
    /\ kw_call = NoCall
    /\ sem_results = <<>>
    /\ kw_results = <<>>
    /\ combined = <<>>
    /\ response = NoResponse
    /\ columns = AllColumns
    /\ files = EmptyStore
    /\ service = Initialized

\* SearchService.search("Apple", 2)
ScenarioSearch ==
    /\ app = "api"
    /\ req = NoRequest
    /\ \E sem_in \in SemanticInputs(semantic_index, model_loaded),
          kw_in \in ScenarioKeywordInputs(keyword_index) :
        Becomes(service_search(AppleQuery, 2, None, None, None,
                               sem_in, kw_in))

\* HybridSearcher.search("Apple", 2)
ScenarioCliSearch ==
    /\ app = "cli"
    /\ req = NoRequest
    /\ \E sem_in \in SemanticInputs(semantic_index, model_loaded),
          kw_in \in ScenarioKeywordInputs(keyword_index) :
        Becomes(hybrid_search(AppleQuery, 2, sem_in, kw_in))

NextScenario == ScenarioSearch \/ ScenarioCliSearch \/ Return

SpecScenario == InitScenario /\ [][NextScenario]_vars

-----------------------------------------------------------------------------
(* Startup over the artifacts of an earlier corpus, and searches after it *)

\* the corpus the artifacts were built from had a row less, as many rows, or
\* a row more than the current one
StaleRows == {NumDocs - 1, NumDocs, NumDocs + 1}

StaleStores ==
    {[name \in FileNames |->
        IF name \in {SemanticFiles[1], SemanticFiles[2]} THEN Saved(sem)
        ELSE Saved(kw)] : sem \in StaleRows, kw \in StaleRows}

StaleQuery == Str(<<"C", "O", "M", "I">>)

InitStale ==
    /\ app \in {"api", "cli"}
    /\ df = Corpus(0, NumDocs)
    /\ model_loaded = FALSE
    /\ semantic_index = FreshSemantic
    /\ keyword_index = FreshKeyword
    /\ formatter_df = Labels(df)
    /\ req = NoRequest
    /\ analysis = None
    /\ sem_call = NoCall
    /\ kw_call = NoCall
    /\ sem_results = <<>>
    /\ kw_results = <<>>
    /\ combined = <<>>
    /\ response = NoResponse
    /\ columns = AllColumns
    /\ files \in StaleStores
    /\ service = Unconstructed

\* SearchService.search(query, top_k) after startup
StaleSearch ==
    /\ app = "api"
    /\ req = NoRequest
    /\ service.is_initialized
    /\ \E top_k \in TopKs,
          sem_in \in SemanticInputs(semantic_index, model_loaded),
          kw_in \in KeywordInputs(keyword_index) :
        Becomes(service_search(StaleQuery, top_k, None, None, None, sem_in,
                               kw_in))

\* SearchApplication.search(query, top_k) after setup
StaleCliSearch ==
    /\ app = "cli"
    /\ req = NoRequest
    /\ service.hybrid_searcher
    /\ \E top_k \in TopKs,
          sem_in \in SemanticInputs(semantic_index, model_loaded),
          kw_in \in KeywordInputs(keyword_index) :
        Becomes(hybrid_search(StaleQuery, top_k, sem_in, kw_in))

NextStale == Initialize \/ StaleSearch \/ StaleCliSearch \/ Return

SpecStale == InitStale /\ [][NextStale]_vars

-----------------------------------------------------------------------------
(* load_or_create_index statement by statement, with calls of is_ready and   *)
(* search from another thread between its statements                         *)

\* where a build is: the statement it executes next, the fields, the files,
\* and what it returned once it is at "returned"
At(pc, fields, fs, returned) ==
    [pc |-> pc, fields |-> fields, files |-> fs, returned |-> returned]

Raises == BOOLEAN

\* one statement of SemanticIndex.load_or_create_index; raises and left are
\* what the library call of the statement does
semantic_step(pc, si, loaded, fs, rows, raises, left) ==
    CASE pc = "file_exists" ->
           IF file_exists(fs, SemanticFiles[1]) /\ file_exists(fs, SemanticFiles[2])
           THEN At("load_embeddings", si, fs, None)
           ELSE At("is_loaded", si, fs, None)
      [] pc = "load_embeddings" ->
           IF Loads(fs, SemanticFiles[1])
           THEN At("load_index",
                   [si EXCEPT !.embeddings = Some(fs[SemanticFiles[1]].rows)],
                   fs, None)
           ELSE At("is_loaded", si, fs, None)
      [] pc = "load_index" ->
           IF Loads(fs, SemanticFiles[2])
           THEN At("returned",
                   [si EXCEPT !.index = Some(fs[SemanticFiles[2]].rows)],
                   fs, Some(TRUE))
           ELSE At("is_loaded", si, fs, None)
      [] pc = "is_loaded" ->
           IF ~loaded THEN At("returned", si, fs, Some(FALSE))
           ELSE At("encode", si, fs, None)
      [] pc = "encode" ->
           IF raises THEN At("returned", si, fs, Some(FALSE))
           ELSE At("IndexFlatIP", [si EXCEPT !.embeddings = Some(rows)], fs, None)
      [] pc = "IndexFlatIP" ->
           At("add", [si EXCEPT !.index = Some(0)], fs, None)
      [] pc = "add" ->
           IF raises THEN At("returned", si, fs, Some(FALSE))
           ELSE At("save_embeddings", [si EXCEPT !.index = Some(rows)], fs, None)
      [] pc = "save_embeddings" ->
           IF left = "saved"
           THEN At("save_index", si, Save(fs, SemanticFiles[1], rows, left), None)
           ELSE At("returned", si, Save(fs, SemanticFiles[1], rows, left),
                   Some(FALSE))
      [] pc = "save_index" ->
           At("returned", si, Save(fs, SemanticFiles[2], rows, left),
              Some(left = "saved"))

\* one statement of KeywordIndex.load_or_create_index
keyword_step(pc, ki, fs, rows, raises, left) ==
    CASE pc = "file_exists" ->
           IF file_exists(fs, KeywordFiles[1]) /\ file_exists(fs, KeywordFiles[2])
           THEN At("load_matrix", ki, fs, None)
           ELSE At("new_vectorizer", ki, fs, None)
      [] pc = "load_matrix" ->
           IF Loads(fs, KeywordFiles[1])
           THEN At("load_vocab",
                   [ki EXCEPT !.tfidf_matrix = Some(fs[KeywordFiles[1]].rows)],
                   fs, None)
           ELSE At("new_vectorizer", ki, fs, None)
      [] pc = "load_vocab" ->
           IF Loads(fs, KeywordFiles[2])
           THEN At("restore_vectorizer", ki, fs, None)
           ELSE At("new_vectorizer", ki, fs, None)
      [] pc = "restore_vectorizer" ->
           At("get_hasher", [ki EXCEPT !.vectorizer = Some("restored")], fs, None)
      [] pc = "get_hasher" ->
           IF HasGetHasher THEN At("returned", ki, fs, Some(TRUE))
           ELSE At("new_vectorizer", ki, fs, None)
      [] pc = "new_vectorizer" ->
           At("fit_transform", [ki EXCEPT !.vectorizer = Some("unfitted")], fs,
              None)
      [] pc = "fit_transform" ->
           IF raises THEN At("returned", ki, fs, Some(FALSE))
           ELSE At("save_matrix",
                   [vectorizer |-> Some("fitted"), tfidf_matrix |-> Some(rows)],
                   fs, None)
      [] pc = "save_matrix" ->
           IF left = "saved"
           THEN At("save_vocab", ki, Save(fs, KeywordFiles[1], rows, left), None)
           ELSE At("returned", ki, Save(fs, KeywordFiles[1], rows, left),
                   Some(FALSE))
      [] pc = "save_vocab" ->
           At("returned", ki, Save(fs, KeywordFiles[2], rows, left),
              Some(left = "saved"))

Building(retriever, pc, returned) ==
    [op |-> "load_or_create_index", retriever |-> retriever, pc |-> pc,
     returned |-> returned]

InitBuild ==
    /\ app = "cli"
    /\ df = Corpus(0, NumDocs)
    /\ model_loaded \in BOOLEAN
    /\ semantic_index = FreshSemantic
    /\ keyword_index = FreshKeyword
    /\ formatter_df = Labels(df)
    /\ req \in {Building(retriever, "file_exists", None) :
                   retriever \in {"semantic", "keyword"}}
    /\ analysis = None
    /\ sem_call = NoCall
    /\ kw_call = NoCall
    /\ sem_results = <<>>
    /\ kw_results = <<>>
    /\ combined = <<>>
    /\ response = NoResponse
    /\ columns = AllColumns
    /\ files \in InitialStores
    /\ service = Unconstructed

\* the thread in SemanticIndex.load_or_create_index executes its next statement
SemanticBuildStep ==
    /\ req.op = "load_or_create_index"
    /\ req.retriever = "semantic"
    /\ req.pc # "returned"
    /\ \E raises \in Raises, left \in SaveOutcomes :
        LET at == semantic_step(req.pc, semantic_index, model_loaded, files,
                                NumDocs, raises, left)
        IN  /\ semantic_index' = at.fields
            /\ files' = at.files
            /\ req' = Building("semantic", at.pc, at.returned)
    /\ UNCHANGED <<app, df, model_loaded, keyword_index, formatter_df, analysis,
                   sem_call, kw_call, sem_results, kw_results, combined,
                   response, columns, service>>

\* the thread in KeywordIndex.load_or_create_index executes its next statement
KeywordBuildStep ==
    /\ req.op = "load_or_create_index"
    /\ req.retriever = "keyword"
    /\ req.pc # "returned"
    /\ \E raises \in Raises, left \in SaveOutcomes :
        LET at == keyword_step(req.pc, keyword_index, files, NumDocs, raises,
                               left)
        IN  /\ keyword_index' = at.fields
            /\ files' = at.files
            /\ req' = Building("keyword", at.pc, at.returned)
    /\ UNCHANGED <<app, df, model_loaded, semantic_index, formatter_df, analysis,
                   sem_call, kw_call, sem_results, kw_results, combined,
                   response, columns, service>>

Observed(call, pc, ready, results) ==
    [status |-> "observed", call |-> call, pc |-> pc, ready |-> ready,
     results |-> results]

\* another thread calls is_ready() of the retriever
ConcurrentIsReady ==
    /\ req.op = "load_or_create_index"
    /\ response' =
          Observed("is_ready", req.pc,
                   IF req.retriever = "semantic"
                   THEN semantic_is_ready(semantic_index, model_loaded)
                   ELSE keyword_is_ready(keyword_index),
                   <<>>)
    /\ UNCHANGED <<app, df, model_loaded, semantic_index, keyword_index,
                   formatter_df, req, analysis, sem_call, kw_call, sem_results,
                   kw_results, combined, columns, files, service>>

\* another thread calls search(query, top_k) of the retriever
ConcurrentSearch ==
    /\ req.op = "load_or_create_index"
    /\ \E top_k \in 1..MaxTopK :
        IF req.retriever = "semantic"
        THEN \E sem_in \in SemanticInputs(semantic_index, model_loaded) :
                response' =
                    Observed("search", req.pc,
                             semantic_is_ready(semantic_index, model_loaded),
                             semantic_search(semantic_index, model_loaded, top_k,
                                             sem_in.fails, sem_in.sims))
        ELSE \E kw_in \in KeywordInputs(keyword_index) :
                response' =
                    Observed("search", req.pc, keyword_is_ready(keyword_index),
                             keyword_search(keyword_index, top_k, kw_in.fails,
                                            kw_in.sims))
    /\ UNCHANGED <<app, df, model_loaded, semantic_index, keyword_index,
                   formatter_df, req, analysis, sem_call, kw_call, sem_results,
                   kw_results, combined, columns, files, service>>

NextBuild ==
    SemanticBuildStep \/ KeywordBuildStep \/ ConcurrentIsReady
    \/ ConcurrentSearch

SpecBuild == InitBuild /\ [][NextBuild]_vars

-----------------------------------------------------------------------------
(* Two calls of QueryAnalyzer.analyze_query with a search in between *)

PairChars == {"a", " ", "("}

PairQueries ==
    {Str(chars) : chars \in UNION {[1..n -> PairChars] : n \in 0..MaxPairLen}}
    \cup { Str(<<"A", "B", "C", "D", "E", "F">>),
           Str(<<" ", "A", "B", "C", "D", "E", "F", " ">>) }

InitPurity ==
    /\ app = "api"
    /\ df = Corpus(0, NumDocs)
    /\ model_loaded = FALSE
    /\ semantic_index = [embeddings |-> None, index |-> None]
    /\ keyword_index = [vectorizer |-> None, tfidf_matrix |-> None]
    /\ formatter_df = Labels(df)
    /\ req \in {[op |-> "analyze_pair", query |-> query, again |-> again] :
                   query \in PairQueries, again \in PairQueries}
    /\ analysis = None
    /\ sem_call = NoCall
    /\ kw_call = NoCall
    /\ sem_results = <<>>
    /\ kw_results = <<>>
    /\ combined = <<>>
    /\ response = NoResponse
    /\ columns = AllColumns
    /\ files = EmptyStore
    /\ service = Initialized

\* the first call: QueryAnalyzer.analyze_query(query)
AnalyzeFirst ==
    /\ req.op = "analyze_pair"
    /\ analysis = None
    /\ analysis' = analyze_query(req.query)
    /\ UNCHANGED <<app, df, model_loaded, semantic_index, keyword_index,
                   formatter_df, req, sem_call, kw_call, sem_results, kw_results,
                   combined, response, columns, files, service>>

\* a search of another request runs to its end: what it leaves in the service
\* is the formatter's view (search_service.py line 179)
SearchBetween ==
    /\ req.op = "analyze_pair"
    /\ analysis # None
    /\ response = NoResponse
    /\ \E query \in SearchQueries, symbol \in Symbols,
          start_date \in StartDates, end_date \in EndDates :
        formatter_df' = service_search(query, 1, start_date, end_date, symbol,
                                       NoInput, NoInput).formatter_df
    /\ UNCHANGED <<app, df, model_loaded, semantic_index, keyword_index,
                   req, analysis, sem_call, kw_call, sem_results, kw_results,
                   combined, response, columns, files, service>>

\* the second call: QueryAnalyzer.analyze_query(again)
AnalyzeAgain ==
    /\ req.op = "analyze_pair"
    /\ analysis # None
    /\ response = NoResponse
    /\ response' = [status |-> "analyzed", analysis |-> analyze_query(req.again)]
    /\ UNCHANGED <<app, df, model_loaded, semantic_index, keyword_index,
                   formatter_df, req, analysis, sem_call, kw_call, sem_results,
                   kw_results, combined, columns, files, service>>

NextPurity == AnalyzeFirst \/ SearchBetween \/ AnalyzeAgain

SpecPurity == InitPurity /\ [][NextPurity]_vars

-----------------------------------------------------------------------------
(* Properties of the classifier, under SpecClassifier *)

Analyzed == req.op = "analyze" /\ analysis # None

\* t is q without its leading and trailing whitespace: q is i whitespace
\* characters, then t, then j whitespace characters, and t neither starts nor
\* ends with whitespace
IsTrimOf(t, q) ==
    \E i \in 0..Len(q), j \in 0..Len(q) :
        /\ i + Len(t) + j = Len(q)
        /\ t = SubSeq(q, i + 1, i + Len(t))
        /\ \A k \in 1..i : q[k].c \in Whitespace
        /\ \A k \in (Len(q) - j + 1)..Len(q) : q[k].c \in Whitespace
        /\ t # <<>> => (t[1].c \notin Whitespace /\ t[Len(t)].c \notin Whitespace)

\* the substrings of q
Substrings(q) == {SubSeq(q, i, j) : i \in 1..(Len(q) + 1), j \in 0..Len(q)}

\* C5: analyze_query marks a query is_short if and only if the trimmed query is
\* at most 6 characters long and entirely alphanumeric; "ABCDEF" is short,
\* "ABCDEFG" is long, and a query of at most 6 characters with a space or
\* punctuation inside, and the empty query, are long.
C5_ClassifierBoundary ==
    Analyzed =>
        /\ analysis.is_short <=>
              \E t \in Substrings(req.query) :
                  /\ IsTrimOf(t, req.query)
                  /\ Len(t) >= 1
                  /\ Len(t) <= 6
                  /\ \A k \in 1..Len(t) : t[k].c \in AlnumChars
        /\ req.query = Str(<<"A", "B", "C", "D", "E", "F">>) => analysis.is_short
        /\ req.query = Str(<<"A", "B", "C", "D", "E", "F", "G">>) => ~analysis.is_short
        /\ req.query = <<>> => ~analysis.is_short
        /\ (/\ Len(req.query) <= 6
            /\ \/ \E k \in 1..Len(req.query) : req.query[k].c = "("
               \/ \E i, k, j \in 1..Len(req.query) :
                     /\ i < k /\ k < j
                     /\ req.query[i].c \notin Whitespace
                     /\ req.query[k].c \in Whitespace
                     /\ req.query[j].c \notin Whitespace)
           => ~analysis.is_short

\* a query of 7 characters that is 6 alphanumeric characters once trimmed
C5_Witness ==
    /\ Analyzed
    /\ Len(req.query) = 7
    /\ analysis.length = 6
    /\ analysis.is_short

\* C6: a short query gets semantic_weight 0.9, keyword_weight 0.1 and the label
\* "keyword-focused"; a long query gets 0.3, 0.7 and "semantic-focused"; the
\* is_short flag agrees with the weights; "COMI" is short.
C6_WeightPolicy ==
    Analyzed =>
        /\ analysis.is_short =>
              /\ analysis.semantic_weight = 9
              /\ analysis.keyword_weight = 1
              /\ analysis.strategy = "keyword-focused"
        /\ ~analysis.is_short =>
              /\ analysis.semantic_weight = 3
              /\ analysis.keyword_weight = 7
              /\ analysis.strategy = "semantic-focused"
        /\ req.query = Str(<<"C", "O", "M", "I">>) =>
              /\ analysis.is_short
              /\ analysis.semantic_weight = 9
              /\ analysis.keyword_weight = 1

\* "COMI" has been analyzed
C6_Witness ==
    /\ Analyzed
    /\ req.query = Str(<<"C", "O", "M", "I">>)
    /\ analysis.is_short

-----------------------------------------------------------------------------
(* Properties of a search, under Spec *)

\* a search has run and has not yet returned to its caller
Searched == req.op \in {"search", "cli_search"}

\* ... and it got as far as retrieval and fusion
Fused == Searched /\ analysis # None

ViaService == req.op = "search"

\* the score of document idx in a candidate list, 0 when it is not in the list
ScoreIn(cands, idx) ==
    IF \E i \in 1..Len(cands) : cands[i].idx = idx
    THEN (CHOOSE c \in Range(cands) : c.idx = idx).score
    ELSE 0

Indices(cands) == {cands[i].idx : i \in 1..Len(cands)}

\* a dict as the set of its (key, value) pairs
AsMap(scores) == {<<scores[i].idx, scores[i].score>> : i \in 1..Len(scores)}

\* C1: a document in both candidate lists has the fused score
\* s_s * semantic_weight + s_l * keyword_weight, a document in one list only
\* has that list's weighted term, no other document has a fused score, and the
\* score map is the same when the keyword list is accumulated first.
C1_FusionAdditivity ==
    Fused =>
        /\ Indices(combined) = Indices(sem_results) \cup Indices(kw_results)
        /\ \A i \in 1..Len(combined) :
              combined[i].score =
                  ScoreIn(sem_results, combined[i].idx) * analysis.semantic_weight
                  + ScoreIn(kw_results, combined[i].idx) * analysis.keyword_weight
        /\ \A i, j \in 1..Len(combined) : combined[i].idx = combined[j].idx => i = j
        /\ AsMap(combined) =
              AsMap(Accumulate(Accumulate(<<>>, kw_results, analysis.keyword_weight),
                               sem_results, analysis.semantic_weight))

\* one document is in both lists with positive scores, another in one list only
C1_Witness ==
    /\ Fused
    /\ \E idx \in Indices(sem_results) \cap Indices(kw_results) :
          ScoreIn(sem_results, idx) > 0 /\ ScoreIn(kw_results, idx) > 0
    /\ Indices(kw_results) \ Indices(sem_results) # {}
    /\ Indices(sem_results) \ Indices(kw_results) # {}

\* the document passes the filters of the request
Eligible(idx) ==
    /\ idx \in DOMAIN df
    /\ req.symbol # None => df[idx].SYMBOLS = Value(req.symbol)
    /\ (req.start_date # None \/ req.end_date # None) => df[idx].MOD_DATE.ok
    /\ req.start_date # None => df[idx].MOD_DATE.day >= Value(req.start_date)
    /\ req.end_date # None => df[idx].MOD_DATE.day <= Value(req.end_date)

\* the de-duplication key of a document: title and formatted date in the
\* service, title alone on the command line
KeyOf(idx) ==
    <<Strip(df[idx].TITLE),
      IF ViaService
      THEN (IF df[idx].MOD_DATE.ok THEN ToString(df[idx].MOD_DATE.day) ELSE "N/A")
      ELSE "N/A">>

\* the de-duplication key of an emitted result
KeyOfResult(r) == <<r.title, IF ViaService THEN r.date ELSE "N/A">>

\* the score-sorted candidate sequence, and the positions of its eligible entries
Candidates == SortDesc(combined)
EligiblePositions == {p \in 1..Len(Candidates) : Eligible(Candidates[p].idx)}
EligibleKeys == {KeyOf(Candidates[p].idx) : p \in EligiblePositions}

\* the earliest eligible position with key k
FirstPosition(k) ==
    CHOOSE p \in EligiblePositions :
        /\ KeyOf(Candidates[p].idx) = k
        /\ \A q \in EligiblePositions : KeyOf(Candidates[q].idx) = k => p <= q

ResultsWithKey(k) ==
    {i \in 1..Len(response.results) : KeyOfResult(response.results[i]) = k}

NoSharedKey ==
    \A i, j \in 1..Len(response.results) :
        KeyOfResult(response.results[i]) = KeyOfResult(response.results[j]) => i = j

\* the keys that two or more eligible candidates have
DuplicatedKeys ==
    {k \in EligibleKeys :
        \E p, q \in EligiblePositions :
            p # q /\ KeyOf(Candidates[p].idx) = k /\ KeyOf(Candidates[q].idx) = k}

C4_RankingOrder ==
    Searched =>
        /\ \A i, j \in 1..Len(response.results) :
              i < j => response.results[i].score >= response.results[j].score
        /\ \A i \in 1..Len(response.results) :
              /\ response.results[i].result_number = i
              /\ response.results[i].score =
                    ScoreIn(combined, response.results[i].idx)

\* two results with different scores, the second one after a candidate the
\* filters removed
C4_Witness ==
    /\ Fused
    /\ Len(response.results) >= 2
    /\ response.results[1].score > response.results[2].score
    /\ \E p, q \in 1..Len(Candidates) :
          /\ p < q
          /\ ~Eligible(Candidates[p].idx)
          /\ Candidates[q].idx = response.results[2].idx

SemReady == semantic_index.embeddings # None /\ semantic_index.index # None /\ model_loaded
KwReady == keyword_index.vectorizer # None /\ keyword_index.tfidf_matrix # None

\* C7: a semantic retriever that is asked is asked for 30 candidates when the
\* query is short and for 40 otherwise, a keyword retriever for 30 and for 20;
\* a ready retriever is asked, whatever top_k is.
C7_CandidateDepth ==
    Fused =>
        /\ SemReady => sem_call = <<IF analysis.is_short THEN 30 ELSE 40>>
        /\ ~SemReady => sem_call = NoCall
        /\ KwReady => kw_call = <<IF analysis.is_short THEN 30 ELSE 20>>
        /\ ~KwReady => kw_call = NoCall

\* a long query with top_k = 1: 40 and 20 candidates are asked for
C7_Witness ==
    /\ Fused
    /\ req.top_k = 1
    /\ ~analysis.is_short
    /\ sem_call = <<40>>
    /\ kw_call = <<20>>

\* the description of a result, markup-stripped, trimmed, newlines collapsed
Cleaned(idx) == ReplaceNewline(Strip(GetText(df[idx].DESCRIPTION)))

\* C8 as stated: the summary of a result is the first 300 characters of the
\* cleaned description, followed by "..." if and only if the cleaned
\* description is longer than 300 characters.
C8_AsStated ==
    Searched =>
        \A i \in 1..Len(response.results) :
            LET cleaned == Cleaned(response.results[i].idx)
            IN  response.results[i].summary =
                    IF TextLen(cleaned) > 300
                    THEN Take(cleaned, 300) \o <<Run(".", 3)>>
                    ELSE cleaned

\* C8, the part the service keeps: the summary starts with the first 300
\* characters of the cleaned description, has no "..." when the description
\* is at most 300 characters before trimming, and has it when the cleaned
\* description is longer than 300 characters.
C8_ServiceSummary ==
    (Searched /\ ViaService) =>
        \A i \in 1..Len(response.results) :
            LET cleaned == Cleaned(response.results[i].idx)
                summary == response.results[i].summary
                first == Take(cleaned, 300)
            IN  /\ summary \in {first, first \o <<Run(".", 3)>>}
                /\ TextLen(cleaned) > 300 => summary = first \o <<Run(".", 3)>>
                /\ TextLen(GetText(df[response.results[i].idx].DESCRIPTION)) <= 300
                      => summary = first

\* C9 as stated: with both retrievers not ready a search returns normally, with
\* no results, and calls neither retriever's search.
C9_AsStated ==
    (Searched /\ ~SemReady /\ ~KwReady) =>
        /\ response.status = "ok"
        /\ response.results = <<>>
        /\ sem_call = NoCall
        /\ kw_call = NoCall

\* C9, the part that holds: with both retrievers not ready no result is
\* emitted and neither retriever's search is called; the service's search
\* returns normally.
C9_NotReadyEmpty ==
    (Searched /\ ~SemReady /\ ~KwReady) =>
        /\ response.results = <<>>
        /\ sem_call = NoCall
        /\ kw_call = NoCall
        /\ ViaService => response.status = "ok"

SemDown == ~SemReady \/ req.sem_fails
KwDown == ~KwReady \/ req.kw_fails

WeightedMap(cands, weight) ==
    {<<cands[i].idx, cands[i].score * weight>> : i \in 1..Len(cands)}

\* C10 as stated: when exactly one retriever is not ready or fails in its
\* search, it contributes no candidate, the search returns normally, and the
\* fused scores are the other retriever's scores times that retriever's weight.
C10_AsStated ==
    (Fused /\ SemDown # KwDown) =>
        /\ SemDown => sem_results = <<>>
        /\ KwDown => kw_results = <<>>
        /\ response.status = "ok"
        /\ SemDown => AsMap(combined) = WeightedMap(kw_results, analysis.keyword_weight)
        /\ KwDown => AsMap(combined) = WeightedMap(sem_results, analysis.semantic_weight)

\* C10, the part that holds: the candidates and the fused scores
C10_DegradedScores ==
    (Fused /\ SemDown # KwDown) =>
        /\ SemDown => sem_results = <<>>
        /\ KwDown => kw_results = <<>>
        /\ SemDown => AsMap(combined) = WeightedMap(kw_results, analysis.keyword_weight)
        /\ KwDown => AsMap(combined) = WeightedMap(sem_results, analysis.semantic_weight)
        /\ ViaService => response.status = "ok"

-----------------------------------------------------------------------------
(* Properties of the retrievers' build, restore and search, under SpecIndex *)

LoadedSemantic == req.op = "semantic_load_or_create_index"
LoadedKeyword == req.op = "keyword_load_or_create_index"

\* C11 as stated: the boolean load_or_create_index returned equals is_ready()
\* right after the call, for both retrievers.
C11_AsStated ==
    /\ LoadedSemantic => (response.returned <=> SemReady)
    /\ LoadedKeyword => (response.returned <=> KwReady)

\* C11, the part that holds: a keyword call that returned True left the
\* retriever ready, and so did a semantic call that returned True with a model
\* loaded; a call before whose build nothing was restored or built (no model,
\* or the first library call raised on a new object with no artifacts loaded)
\* returned False and left the retriever not ready.
C11_ReadyWhenTrue ==
    /\ (LoadedKeyword /\ response.returned) => KwReady
    /\ (LoadedSemantic /\ response.returned /\ model_loaded) => SemReady
    /\ (LoadedSemantic /\ ~response.returned /\ req.fault.step = "encode")
          => ~SemReady

\* C12 as stated: with no model loaded SemanticIndex.load_or_create_index
\* returns False, calls neither the embedding provider nor the index build,
\* whatever the Index Store holds.
C12_AsStated ==
    (LoadedSemantic /\ ~model_loaded) =>
        /\ response.returned = FALSE
        /\ response.calls = <<>>

\* C12, the part that holds: with no model loaded nothing is encoded, built
\* or saved and the retriever is not ready afterwards.
C12_NoBuild ==
    (LoadedSemantic /\ ~model_loaded) =>
        /\ response.calls = <<>>
        /\ files = req.files
        /\ ~SemReady

SearchedKeyword == req.op = "keyword_search"

\* the shape of a keyword result list for the top_k of the call
KeywordShape ==
    LET results == response.results
    IN  /\ Len(results) <= req.top_k
        /\ \A i \in 1..Len(results) : results[i].score > 0
        /\ \A i, j \in 1..Len(results) :
              i < j => results[i].score >= results[j].score
        /\ (~KwReady \/ req.fails) => results = <<>>

\* C13 as stated: for every top_k >= 0 KeywordIndex.search returns at most
\* top_k candidates, each with a positive score, in descending score order,
\* and none when the retriever is not ready or the transform fails.
C13_AsStated == SearchedKeyword => KeywordShape

\* C13, the part that holds: the same for every top_k >= 1.
C13_PositiveTopK == (SearchedKeyword /\ req.top_k >= 1) => KeywordShape

\* the two files the restore path of a retriever checks are there, and one of
\* them does not load or they are not of the same build
Mismatched(fs, names) ==
    /\ file_exists(fs, names[1])
    /\ file_exists(fs, names[2])
    /\ \/ ~Loads(fs, names[1])
       \/ ~Loads(fs, names[2])
       \/ fs[names[1]].rows # fs[names[2]].rows

\* C14 as stated: the Index Store never holds, under the names a restore
\* checks, a file that does not load or a pair that is not of one build.
C14_AsStated ==
    /\ ~Mismatched(files, SemanticFiles)
    /\ ~Mismatched(files, KeywordFiles)

\* both artifacts exist and loading one of them fails
Corrupt(fs, names) ==
    /\ file_exists(fs, names[1])
    /\ file_exists(fs, names[2])
    /\ ~Loads(fs, names[1]) \/ ~Loads(fs, names[2])

AsIfAbsent(fs, names) ==
    [fs EXCEPT ![names[1]] = Absent, ![names[2]] = Absent]

\* C15 as stated: a load_or_create_index that finds artifacts one of which
\* does not load returns normally, and returns and leaves the fields exactly
\* what it would with the artifacts absent.
C15_AsStated ==
    /\ (LoadedSemantic /\ Corrupt(req.files, SemanticFiles)) =>
          LET asif == semantic_load_or_create_index(
                          req.fields, model_loaded,
                          AsIfAbsent(req.files, SemanticFiles), NumDocs, req.fault)
          IN  /\ response.status = "ok"
              /\ response.returned = asif.returned
              /\ semantic_index = asif.fields
    /\ (LoadedKeyword /\ Corrupt(req.files, KeywordFiles)) =>
          LET asif == keyword_load_or_create_index(
                          req.fields, AsIfAbsent(req.files, KeywordFiles),
                          NumDocs, req.fault)
          IN  /\ response.status = "ok"
              /\ response.returned = asif.returned
              /\ keyword_index = asif.fields

\* C15, the part that holds: the call returns normally, and when the rebuild
\* goes through (for the semantic retriever, with a model loaded) both fields
\* and both files are those of the rebuild.
C15_Rebuilt ==
    /\ (LoadedSemantic /\ Corrupt(req.files, SemanticFiles)) =>
          /\ response.status = "ok"
          /\ (model_loaded /\ req.fault = NoFault) =>
                /\ response.returned
                /\ semantic_index = [embeddings |-> Some(NumDocs),
                                     index |-> Some(NumDocs)]
                /\ \A i \in 1..2 : files[SemanticFiles[i]] = Saved(NumDocs)
    /\ (LoadedKeyword /\ Corrupt(req.files, KeywordFiles)) =>
          /\ response.status = "ok"
          /\ req.fault = NoFault =>
                /\ response.returned
                /\ keyword_index = [vectorizer |-> Some("fitted"),
                                    tfidf_matrix |-> Some(NumDocs)]
                /\ \A i \in 1..2 : files[KeywordFiles[i]] = Saved(NumDocs)

-----------------------------------------------------------------------------
(* Properties of the shared state of the service, under Spec *)

\* C16 as stated: whatever searches were served, the document view held by
\* the shared ResultFormatter is the full corpus loaded at startup.
C16_AsStated == formatter_df = Labels(df)

\* C16, the part that holds: the view changes only in a search of the
\* service that got past its filters, and becomes that request's filtered rows.
C16_ViewOfLastSearch ==
    (Fused /\ ViaService) =>
        formatter_df = FilterRows(df, req.symbol, req.start_date, req.end_date)

-----------------------------------------------------------------------------
(* Properties of the service behind its routes, under SpecService *)

RoutedSearch == req.op \in {"routes_search", "search_endpoint"}

BadDateText == ~Parses(req.start_text) \/ ~Parses(req.end_text)

UnknownSymbol ==
    /\ req.symbol # None
    /\ \A i \in DOMAIN df : df[i].SYMBOLS # Value(req.symbol)

\* the service started and the CSV has every column the search reads
Serving == service.is_initialized /\ columns = AllColumns

\* C17 as stated: a search whose date filter is no date, or whose symbol no
\* document of the corpus has, is answered with a request-validation failure
\* (a 4xx status), neither a normal response nor an internal error.
C17_AsStated ==
    (RoutedSearch /\ Serving /\ (BadDateText \/ UnknownSymbol)) =>
        response.code \in 400..499

\* C17, the part that holds: the search endpoint of the server refuses a date
\* text that is no date with 422; the search of APIRoutes answers it with 500;
\* a symbol no document has gives 200 with no result and the strategy
\* "No results (filtered)".
C17_WhatFiltersGet ==
    (RoutedSearch /\ Serving) =>
        /\ BadDateText =>
              response.code = IF req.op = "search_endpoint" THEN 422 ELSE 500
        /\ (UnknownSymbol /\ ~BadDateText) =>
              /\ response.code = 200
              /\ response.results = <<>>
              /\ response.strategy = NoResultsFiltered

\* C18: a service whose CSV could not be read or lacks TITLE or DESCRIPTION is
\* not initialized and stays as it is; every health check of it reports
\* "unhealthy" and every search of it is refused without asking a retriever;
\* a health check reports "healthy" only when the service is initialized with
\* its frame and its hybrid searcher set.
C18_CorpusErrorsFatal ==
    /\ [](/\ (service # Unconstructed /\ ~(RequiredColumns \subseteq columns))
                => ~service.is_initialized
          /\ (req.op = "initialize" /\ ~req.csv_readable)
                => /\ ~service.is_initialized
                   /\ service.initialization_error # None
          /\ service.initialization_error # None => ~service.is_initialized
          /\ req.op = "health_check" =>
                /\ response.status \in {"healthy", "unhealthy"}
                /\ response.status = "healthy" <=> service.is_initialized
                /\ response.status = "healthy" =>
                      /\ service.df
                      /\ service.hybrid_searcher
                      /\ response.documents_loaded = Cardinality(DOMAIN df)
          /\ (RoutedSearch /\ ~service.is_initialized) =>
                /\ response.code # 200
                /\ response.results = <<>>
                /\ analysis = None
                /\ sem_call = NoCall
                /\ kw_call = NoCall)
    /\ [][service.initialization_error # None => service' = service]_vars

\* a service whose CSV lacks a required column refused a search
C18_Witness ==
    /\ RoutedSearch
    /\ ~(RequiredColumns \subseteq columns)
    /\ service.initialization_error = Some("Missing columns")
    /\ response.code = 500

\* C19 as stated: on a CSV with TITLE and DESCRIPTION a search with no filter
\* succeeds, and a result shows "N/A" for a column the CSV does not have.
C19_AsStated ==
    (/\ RoutedSearch
     /\ service.is_initialized
     /\ req.symbol = None /\ req.start_text = None /\ req.end_text = None) =>
        /\ response.code = 200
        /\ \A i \in 1..Len(response.results) :
              /\ "SOURCE_NAME" \notin columns => response.results[i].source = "N/A"
              /\ "MOD_DATE" \notin columns => response.results[i].date = "N/A"

\* C19, the part that holds: the same when the CSV has MOD_DATE and SYMBOLS,
\* that is when the column it lacks is SOURCE_NAME.
C19_SourceOptional ==
    (/\ RoutedSearch
     /\ service.is_initialized
     /\ LoggedColumns \subseteq columns
     /\ req.symbol = None /\ req.start_text = None /\ req.end_text = None) =>
        /\ response.code = 200
        /\ \A i \in 1..Len(response.results) :
              "SOURCE_NAME" \notin columns => response.results[i].source = "N/A"

-----------------------------------------------------------------------------
(* Properties of the duplicate-title scenario, under SpecScenario *)

SemanticAnswered == sem_call # NoCall /\ ~req.sem_fails
KeywordAnswered == kw_call # NoCall /\ ~req.kw_fails

ResultTitles == {response.results[i].title : i \in 1..Len(response.results)}

\* C20 as stated: when a retriever answers, the scenario returns exactly 1
\* result on the command line (title-only de-duplication) and exactly 2 from
\* the service (title and date).
C20_AsStated ==
    (Searched /\ (SemanticAnswered \/ KeywordAnswered)) =>
        /\ ViaService => Len(response.results) = 2
        /\ ~ViaService => Len(response.results) = 1

\* C20, amended: when a retriever answers, the service (title and date)
\* returns exactly 2 results; the command line (title only) returns exactly 1
\* result, an Apple document, when only the keyword retriever answers, and
\* exactly 2, an Apple document and the Banana document, when the semantic
\* retriever answers.
C20_Scenario ==
    (Searched /\ (SemanticAnswered \/ KeywordAnswered)) =>
        /\ ViaService => Len(response.results) = 2
        /\ (~ViaService /\ ~SemanticAnswered) =>
              /\ Len(response.results) = 1
              /\ ResultTitles = {AppleTitle}
        /\ (~ViaService /\ SemanticAnswered) =>
              /\ Len(response.results) = 2
              /\ ResultTitles = {AppleTitle, BananaTitle}

\* on the command line both retrievers answered, the duplicate Apple document
\* was passed over and the Banana document took the second place
C20_Witness ==
    /\ Searched
    /\ ~ViaService
    /\ SemanticAnswered
    /\ KeywordAnswered
    /\ Len(response.results) = 2
    /\ response.results[1].title = AppleTitle
    /\ response.results[2].title = BananaTitle
    /\ response.results[2].idx = 2

-----------------------------------------------------------------------------
(* Properties of two calls of the classifier, under SpecPurity *)

AnalyzedFirst == req.op = "analyze_pair" /\ analysis # None
AnalyzedBoth == AnalyzedFirst /\ response.status = "analyzed"

\* q and r are equal after trimming
SameTrimmed(q, r) ==
    \E t \in Substrings(q) : IsTrimOf(t, q) /\ IsTrimOf(t, r)

\* C21: both weights of an analysis lie in [0, 1] (in tenths, 0..10) and one of
\* them is positive; its query field is the trimmed query and its length the
\* length of that; and two calls whose queries are equal after trimming, with
\* searches of the service between them, return the same analysis.
C21_ClassifierPurity ==
    /\ AnalyzedFirst =>
          /\ analysis.semantic_weight \in 0..10
          /\ analysis.keyword_weight \in 0..10
          /\ analysis.semantic_weight > 0 \/ analysis.keyword_weight > 0
          /\ IsTrimOf(analysis.query, req.query)
          /\ analysis.length = Len(analysis.query)
    /\ AnalyzedBoth =>
          /\ IsTrimOf(response.analysis.query, req.again)
          /\ SameTrimmed(req.query, req.again) => response.analysis = analysis

\* two different queries with the same trimmed text, a short one, were
\* analyzed, and a search in between left a filtered view in the service
C21_Witness ==
    /\ AnalyzedBoth
    /\ req.query # req.again
    /\ SameTrimmed(req.query, req.again)
    /\ formatter_df # Labels(df)
    /\ analysis.is_short
    /\ response.analysis = analysis

-----------------------------------------------------------------------------
(* Properties of a build observed from another thread, under SpecBuild *)

BuildOf(retriever) ==
    req.op = "load_or_create_index" /\ req.retriever = retriever

FieldsOfBuild ==
    IF req.retriever = "semantic" THEN semantic_index ELSE keyword_index

\* a field of the retriever has been assigned and the call has not returned
InProgress ==
    /\ req.op = "load_or_create_index"
    /\ req.pc # "returned"
    /\ FieldsOfBuild # (IF req.retriever = "semantic" THEN FreshSemantic
                        ELSE FreshKeyword)

\* the observation in response was made in the current state of the build
ObservedNow == response.status = "observed" /\ response.pc = req.pc

\* the index structure of the retriever holds every document of the corpus
HoldsAllDocuments ==
    IF req.retriever = "semantic"
    THEN semantic_index.index = Some(NumDocs)
    ELSE keyword_index.tfidf_matrix = Some(NumDocs)

\* C22 as stated: while a build is in progress a concurrent is_ready() is
\* false and a concurrent search returns no candidates, and a retriever that
\* reports ready holds all corpus documents in its index structure.
C22_AsStated ==
    (req.op = "load_or_create_index" /\ ObservedNow) =>
        /\ InProgress => (~response.ready /\ response.results = <<>>)
        /\ response.ready => HoldsAllDocuments

\* what does hold: a concurrent search returns candidates only from an index
\* structure whose rows were all added (the build's, or a restored file's), and
\* a retriever with one field assigned is not ready.
C22_CandidatesFromWholeIndex ==
    (req.op = "load_or_create_index" /\ ObservedNow) =>
        /\ response.results # <<>> =>
              /\ response.ready
              /\ \/ HoldsAllDocuments
                 \/ BuildOf("semantic")
                    /\ semantic_index.index = Some(NumDocs - 1)
                 \/ BuildOf("keyword")
                    /\ keyword_index.tfidf_matrix = Some(NumDocs - 1)
        /\ (BuildOf("semantic") /\ semantic_index.index = None) => ~response.ready
        /\ (BuildOf("keyword") /\ keyword_index.vectorizer = None) => ~response.ready

-----------------------------------------------------------------------------
(* Properties of searches over restored artifacts, under SpecStale *)

\* the identifiers the retrievers returned to the search
ReturnedIds ==
    {sem_results[i].idx : i \in 1..Len(sem_results)}
    \cup {kw_results[i].idx : i \in 1..Len(kw_results)}

\* C23 as stated: after load_or_create_index over artifacts of another corpus
\* every identifier a retriever returns is a document of the current corpus,
\* no search raises, and a ready retriever holds the current corpus.
C23_AsStated ==
    /\ Searched =>
          /\ ReturnedIds \subseteq DOMAIN df
          /\ response.status # "raised"
    /\ (service.is_initialized /\ semantic_is_ready(semantic_index, model_loaded))
          => semantic_index.index = Some(NumDocs)

\* what does hold: the keyword retriever returns documents of the current
\* corpus only, SearchService.search does not raise and its results are
\* documents of the current corpus, and the command-line search raises only
\* on an identifier the semantic retriever took from a larger restored index.
C23_WhatStaleSearchesDo ==
    Searched =>
        /\ \A i \in 1..Len(kw_results) : kw_results[i].idx \in DOMAIN df
        /\ ViaService =>
              /\ response.status = "ok"
              /\ \A i \in 1..Len(response.results) :
                    response.results[i].idx \in DOMAIN df
        /\ response.status = "raised" =>
              /\ ~ViaService
              /\ semantic_index.index = Some(NumDocs + 1)
              /\ \E i \in 1..Len(sem_results) : sem_results[i].idx = NumDocs

-----------------------------------------------------------------------------
(* Properties of the status query, under SpecService *)

HealthChecked == req.op = "health_check"

\* C24: the status query of a service that has its retrievers reports
\* semantic_available and keyword_available as the retrievers' is_ready(), and
\* the mode "hybrid" exactly when both are ready, "keyword_only" exactly when
\* the keyword retriever is ready and the semantic one is not, and "none"
\* exactly when the keyword retriever is not ready, the semantic one ready or
\* not.
C24_HealthModes ==
    (HealthChecked /\ service.hybrid_searcher) =>
        /\ response.search_capabilities # None
        /\ LET capabilities == Value(response.search_capabilities)
               semantic_ready ==
                   /\ semantic_index.embeddings # None
                   /\ semantic_index.index # None
                   /\ model_loaded
               keyword_ready ==
                   /\ keyword_index.vectorizer # None
                   /\ keyword_index.tfidf_matrix # None
           IN  /\ capabilities.semantic_available = semantic_ready
               /\ capabilities.keyword_available = keyword_ready
               /\ capabilities.mode \in {"hybrid", "keyword_only", "none"}
               /\ capabilities.mode = "hybrid" <=> (semantic_ready /\ keyword_ready)
               /\ capabilities.mode = "keyword_only" <=>
                     (keyword_ready /\ ~semantic_ready)
               /\ capabilities.mode = "none" <=> ~keyword_ready

\* the status query answered "none" while the semantic retriever was ready
C24_Witness ==
    /\ HealthChecked
    /\ service.hybrid_searcher
    /\ semantic_is_ready(semantic_index, model_loaded)
    /\ ~keyword_is_ready(keyword_index)
    /\ Value(response.search_capabilities).mode = "none"
    /\ Value(response.search_capabilities).semantic_available

-----------------------------------------------------------------------------
(* Properties of the lexical index restored from its files, under SpecIndex *)

\* the fields of a KeywordIndex freshly built from the corpus
FreshlyBuiltKeyword ==
    keyword_create_new_index(FreshKeyword, EmptyStore, NumDocs, NoFault).fields

\* load_or_create_index found the two files a successful build of this corpus
\* persisted
FoundPersisted ==
    /\ LoadedKeyword
    /\ req.files[KeywordFiles[1]] = Saved(NumDocs)
    /\ req.files[KeywordFiles[2]] = Saved(NumDocs)

\* for every query the retriever returns what a freshly built one returns
SearchesLikeFresh ==
    \A top_k \in DirectTopKs, sims \in ScoreVectors(NumDocs) :
        keyword_search(keyword_index, top_k, FALSE, sims)
            = keyword_search(FreshlyBuiltKeyword, top_k, FALSE, sims)

\* C25 as stated: load_or_create_index over the files a successful build
\* persisted leaves a retriever that is ready and searches like a freshly
\* built one.
C25_AsStated ==
    FoundPersisted => (keyword_is_ready(keyword_index) /\ SearchesLikeFresh)

\* what does hold: the call never returns from the restore path, and when it
\* returns True the retriever is the rebuilt one and searches like a fresh one.
C25_RebuiltLikeFresh ==
    FoundPersisted =>
        /\ response.calls # <<>>
        /\ response.calls[1] = "fit_transform"
        /\ response.returned =>
              /\ keyword_index = FreshlyBuiltKeyword
              /\ SearchesLikeFresh

-----------------------------------------------------------------------------
(* Properties of the filters of SearchService.search, under Spec *)

\* document idx passes every filter the request supplies
PassesFilters(idx) ==
    /\ idx \in DOMAIN df
    /\ req.symbol # None => df[idx].SYMBOLS = Value(req.symbol)
    /\ (req.start_date # None \/ req.end_date # None) =>
          /\ df[idx].MOD_DATE.ok
          /\ req.start_date # None => Value(req.start_date) <= df[idx].MOD_DATE.day
          /\ req.end_date # None => df[idx].MOD_DATE.day <= Value(req.end_date)

\* C26: every result of SearchService.search passes all supplied filters; a
\* candidate the filters removed takes no place among the top_k results and no
\* result number; and when no document passes the filters the result list is
\* empty, the strategy is "No results (filtered)" and no retriever was queried.
C26_FilterSoundness ==
    (Searched /\ ViaService) =>
        /\ \A i \in 1..Len(response.results) :
              /\ PassesFilters(response.results[i].idx)
              /\ response.results[i].result_number = i
        /\ \A p \in 1..Len(Candidates) :
              (/\ PassesFilters(Candidates[p].idx)
               /\ ResultsWithKey(KeyOf(Candidates[p].idx)) = {})
                  => Len(response.results) = req.top_k
        /\ (\A idx \in DOMAIN df : ~PassesFilters(idx)) =>
              /\ response.results = <<>>
              /\ response.strategy = NoResultsFiltered
              /\ sem_call = NoCall
              /\ kw_call = NoCall
              /\ analysis = None

\* a symbol and a date bound were supplied, the best-scored candidate did not
\* pass them, and the first result is a lower-ranked document that does
C26_Witness ==
    /\ Searched
    /\ ViaService
    /\ req.symbol # None
    /\ req.end_date # None
    /\ Len(Candidates) >= 2
    /\ ~PassesFilters(Candidates[1].idx)
    /\ Len(response.results) >= 1
    /\ response.results[1].result_number = 1
    /\ response.results[1].idx # Candidates[1].idx

====
